---- MODULE Spec2Model ----
(***************************************************************************)
(* A model of the sentiment analysis client of gemini_client.py:           *)
(*   analyze_sentiment  = _create_sentiment_prompt, _make_api_request      *)
(*                        (the retry loop), _parse_api_response (the       *)
(*                        decode chain), then processing_time.             *)
(*                                                                         *)
(* A Python str is a sequence of one-character strings, so that every      *)
(* string operation of the source (startswith, endswith, in, strip, lower, *)
(* re.sub, re.search, json.loads, int, float) is computed on characters.   *)
(* A Python object is a record tagged by its type (PyStr, PyInt, ...).     *)
(***************************************************************************)
EXTENDS Integers, Sequences, FiniteSets, TLC

(***************************************************************************)
(* Characters.  The backtick cannot be written in a TLA+ string; it is the *)
(* atom BT.                                                                *)
(***************************************************************************)
BT == "BACKTICK"
QUOTE == "\""
NL == "\n"
BACKSLASH == "\\"

\* str.strip(), the regex class \s and json's whitespace, on the characters modelled.
WS == {" ", NL, "\t", "\r"}

DIGITS == {"0", "1", "2", "3", "4", "5", "6", "7", "8", "9"}

DigitVal(c) == CASE c = "0" -> 0 [] c = "1" -> 1 [] c = "2" -> 2 [] c = "3" -> 3 [] c = "4" -> 4
                 [] c = "5" -> 5 [] c = "6" -> 6 [] c = "7" -> 7 [] c = "8" -> 8 [] c = "9" -> 9

DigitChar(d) == CASE d = 0 -> "0" [] d = 1 -> "1" [] d = 2 -> "2" [] d = 3 -> "3" [] d = 4 -> "4"
                  [] d = 5 -> "5" [] d = 6 -> "6" [] d = 7 -> "7" [] d = 8 -> "8" [] d = 9 -> "9"

\* str.lower() on one character (ASCII letters).
LowerChar(c) == CASE c = "A" -> "a" [] c = "B" -> "b" [] c = "C" -> "c" [] c = "D" -> "d" [] c = "E" -> "e"
                  [] c = "F" -> "f" [] c = "G" -> "g" [] c = "H" -> "h" [] c = "I" -> "i" [] c = "J" -> "j"
                  [] c = "K" -> "k" [] c = "L" -> "l" [] c = "M" -> "m" [] c = "N" -> "n" [] c = "O" -> "o"
                  [] c = "P" -> "p" [] c = "Q" -> "q" [] c = "R" -> "r" [] c = "S" -> "s" [] c = "T" -> "t"
                  [] c = "U" -> "u" [] c = "V" -> "v" [] c = "W" -> "w" [] c = "X" -> "x" [] c = "Y" -> "y"
                  [] c = "Z" -> "z" [] OTHER -> c

(***************************************************************************)
(* The string literals of the source.                                      *)
(***************************************************************************)

\* The keys of the object a reply carries.
K ==
    [sentiment_score |-> <<"s", "e", "n", "t", "i", "m", "e", "n", "t", "_", "s", "c", "o", "r", "e">>,
     sentiment_label |-> <<"s", "e", "n", "t", "i", "m", "e", "n", "t", "_", "l", "a", "b", "e", "l">>,
     confidence |-> <<"c", "o", "n", "f", "i", "d", "e", "n", "c", "e">>,
     explanation |-> <<"e", "x", "p", "l", "a", "n", "a", "t", "i", "o", "n">>,
     language_detected |-> <<"l", "a", "n", "g", "u", "a", "g", "e", "_", "d", "e", "t", "e", "c", "t", "e", "d">>]

\* Language codes.
LANG ==
    [auto |-> <<"a", "u", "t", "o">>,
     en |-> <<"e", "n">>,
     ja |-> <<"j", "a">>,
     ko |-> <<"k", "o">>,
     zh |-> <<"z", "h">>,
     fr |-> <<"f", "r">>]

\* The labels of score_to_label.
L ==
    [VeryNegative |-> <<"V", "e", "r", "y", " ", "N", "e", "g", "a", "t", "i", "v", "e">>,
     Negative |-> <<"N", "e", "g", "a", "t", "i", "v", "e">>,
     Neutral |-> <<"N", "e", "u", "t", "r", "a", "l">>,
     Positive |-> <<"P", "o", "s", "i", "t", "i", "v", "e">>,
     VeryPositive |-> <<"V", "e", "r", "y", " ", "P", "o", "s", "i", "t", "i", "v", "e">>]

\* The other texts the code writes out.
TXT ==
    [fence_json |-> <<BT, BT, BT, "j", "s", "o", "n">>,
     fence |-> <<BT, BT, BT>>,
     completed |-> <<"S", "e", "n", "t", "i", "m", "e", "n", "t", " ", "a", "n", "a", "l", "y", "s", "i", "s", " ", "c", "o", "m", "p", "l", "e", "t", "e", "d">>,
     inferred |-> <<"S", "e", "n", "t", "i", "m", "e", "n", "t", " ", "i", "n", "f", "e", "r", "r", "e", "d", " ", "f", "r", "o", "m", " ", "r", "e", "s", "p", "o", "n", "s", "e", " ", "t", "e", "x", "t">>,
     null |-> <<"n", "u", "l", "l">>,
     true |-> <<"t", "r", "u", "e">>,
     false |-> <<"f", "a", "l", "s", "e">>,
     default_conf_sp |-> <<" ", "0", ".", "9", "5">>,
     default_conf |-> <<"0", ".", "9", "5">>,
     MAX_TOKENS |-> <<"M", "A", "X", "_", "T", "O", "K", "E", "N", "S">>,
     STOP |-> <<"S", "T", "O", "P">>,
     RetryAfter |-> <<"R", "e", "t", "r", "y", "-", "A", "f", "t", "e", "r">>,
     sixty |-> <<"6", "0">>,
     general |-> <<"G", "e", "n", "e", "r", "a", "l", " ", "c", "o", "m", "m", "u", "n", "i", "c", "a", "t", "i", "o", "n">>]

\* The keywords of _infer_sentiment_from_text.
W ==
    [very_positive |-> <<"v", "e", "r", "y", " ", "p", "o", "s", "i", "t", "i", "v", "e">>,
     excellent |-> <<"e", "x", "c", "e", "l", "l", "e", "n", "t">>,
     amazing |-> <<"a", "m", "a", "z", "i", "n", "g">>,
     fantastic |-> <<"f", "a", "n", "t", "a", "s", "t", "i", "c">>,
     positive |-> <<"p", "o", "s", "i", "t", "i", "v", "e">>,
     good |-> <<"g", "o", "o", "d">>,
     great |-> <<"g", "r", "e", "a", "t">>,
     happy |-> <<"h", "a", "p", "p", "y">>,
     neutral |-> <<"n", "e", "u", "t", "r", "a", "l">>,
     factual |-> <<"f", "a", "c", "t", "u", "a", "l">>,
     informational |-> <<"i", "n", "f", "o", "r", "m", "a", "t", "i", "o", "n", "a", "l">>,
     negative |-> <<"n", "e", "g", "a", "t", "i", "v", "e">>,
     bad |-> <<"b", "a", "d">>,
     poor |-> <<"p", "o", "o", "r">>,
     disappointing |-> <<"d", "i", "s", "a", "p", "p", "o", "i", "n", "t", "i", "n", "g">>,
     very_negative |-> <<"v", "e", "r", "y", " ", "n", "e", "g", "a", "t", "i", "v", "e">>,
     terrible |-> <<"t", "e", "r", "r", "i", "b", "l", "e">>,
     awful |-> <<"a", "w", "f", "u", "l">>,
     hate |-> <<"h", "a", "t", "e">>]

(***************************************************************************)
(* String operations.                                                      *)
(***************************************************************************)
\* s[i:i+len(p)] == p
MatchAt(t, i, p) == /\ i >= 1
                    /\ i + Len(p) - 1 <= Len(t)
                    /\ \A k \in 1..Len(p) : t[i + k - 1] = p[k]

StartsWith(t, p) == MatchAt(t, 1, p)

EndsWith(t, p) == MatchAt(t, Len(t) - Len(p) + 1, p)

\* p in t
Contains(t, p) == \E i \in 1..(Len(t) - Len(p) + 1) : MatchAt(t, i, p)

Lower(t) == [i \in 1..Len(t) |-> LowerChar(t[i])]

RECURSIVE SkipWs(_, _)
\* The index of the first character at or after i that is not whitespace.
SkipWs(t, i) == IF i <= Len(t) /\ t[i] \in WS THEN SkipWs(t, i + 1) ELSE i

RECURSIVE SkipWsBack(_, _)
SkipWsBack(t, j) == IF j >= 1 /\ t[j] \in WS THEN SkipWsBack(t, j - 1) ELSE j

\* str.strip()
Strip(t) == SubSeq(t, SkipWs(t, 1), SkipWsBack(t, Len(t)))

Quoted(s) == <<QUOTE>> \o s \o <<QUOTE>>

(***************************************************************************)
(* Python objects.  A float is the decimal m / 10^e, kept normalised (no   *)
(* trailing zero in the fraction), so that equal numbers are equal records.*)
(***************************************************************************)
PyStr(s) == [t |-> "str", s |-> s]

PyInt(i) == [t |-> "int", i |-> i]

PyNone == [t |-> "None"]

PyBool(b) == [t |-> "bool", b |-> b]

PyDict(items) == [t |-> "dict", items |-> items]

PyList(elems) == [t |-> "list", elems |-> elems]

RECURSIVE Pow10(_)
Pow10(e) == IF e = 0 THEN 1 ELSE 10 * Pow10(e - 1)

RECURSIVE PyFloat(_, _)
PyFloat(m, e) == IF e > 0 /\ m % 10 = 0 THEN PyFloat(m \div 10, e - 1)
                 ELSE [t |-> "float", m |-> m, e |-> e]

\* Integer division truncating toward zero, as int() of a float.
Trunc(m, d) == IF m >= 0 THEN m \div d ELSE -((-m) \div d)

(***************************************************************************)
(* json.loads (the standard library decoder the source calls), by          *)
(* recursive descent on the characters.  A parse step returns              *)
(* [ok, v, i]: the value and the index after it.  Not modelled, and not in *)
(* the replies enumerated: exponents, NaN/Infinity, \u escapes.            *)
(***************************************************************************)
POk(v, i) == [ok |-> TRUE, v |-> v, i |-> i]

PFail(i) == [ok |-> FALSE, i |-> i]

CONTROL == {NL, "\t", "\r"}

Unescape(c) == CASE c = "n" -> NL [] c = "t" -> "\t" [] c = "r" -> "\r" [] OTHER -> c

RECURSIVE ScanString(_, _, _)
\* t[j..] is the inside of a string literal; acc is what was read of it.
ScanString(t, j, acc) ==
    IF j > Len(t) THEN PFail(j)
    ELSE IF t[j] = QUOTE THEN POk(PyStr(acc), j + 1)
    ELSE IF t[j] = BACKSLASH
         THEN IF j + 1 <= Len(t) /\ t[j + 1] \in {QUOTE, BACKSLASH, "/", "n", "t", "r"}
              THEN ScanString(t, j + 2, Append(acc, Unescape(t[j + 1])))
              ELSE PFail(j)
    ELSE IF t[j] \in CONTROL THEN PFail(j)
    ELSE ScanString(t, j + 1, Append(acc, t[j]))

RECURSIVE ScanDigits(_, _, _)
\* [n, i]: the value of acc followed by the digits at t[j..], and the index after them.
ScanDigits(t, j, acc) ==
    IF j <= Len(t) /\ t[j] \in DIGITS
    THEN ScanDigits(t, j + 1, 10 * acc + DigitVal(t[j]))
    ELSE [n |-> acc, i |-> j]

\* NUMBER_RE = (-?(?:0|[1-9]\d*))(\.\d+)? at t[i]
ParseNumber(t, i) ==
    LET neg == t[i] = "-"
        j0 == IF neg THEN i + 1 ELSE i
        sgn == IF neg THEN -1 ELSE 1
    IN IF ~(j0 <= Len(t) /\ t[j0] \in DIGITS) THEN PFail(i)
       ELSE LET ip == IF t[j0] = "0" THEN [n |-> 0, i |-> j0 + 1]
                      ELSE ScanDigits(t, j0, 0)
            IN IF ip.i + 1 <= Len(t) /\ t[ip.i] = "." /\ t[ip.i + 1] \in DIGITS
               THEN LET fp == ScanDigits(t, ip.i + 1, ip.n)
                    IN POk(PyFloat(sgn * fp.n, fp.i - (ip.i + 1)), fp.i)
               ELSE POk(PyInt(sgn * ip.n), ip.i)

RECURSIVE ParseValue(_, _)
RECURSIVE ParseMembers(_, _, _)
RECURSIVE ParseElements(_, _, _)

\* The members of an object from the key at t[i] (a quote) on; items read so far.
ParseMembers(t, i, items) ==
    IF ~(i <= Len(t) /\ t[i] = QUOTE) THEN PFail(i)
    ELSE LET k == ScanString(t, i + 1, <<>>)
         IN IF ~k.ok THEN k
            ELSE LET c == SkipWs(t, k.i)
                 IN IF ~(c <= Len(t) /\ t[c] = ":") THEN PFail(c)
                    ELSE LET v == ParseValue(t, SkipWs(t, c + 1))
                         IN IF ~v.ok THEN v
                            ELSE LET n == SkipWs(t, v.i)
                                     got == Append(items, <<k.v.s, v.v>>)
                                 IN IF n > Len(t) THEN PFail(n)
                                    ELSE IF t[n] = "}" THEN POk(PyDict(got), n + 1)
                                    ELSE IF t[n] = "," THEN ParseMembers(t, SkipWs(t, n + 1), got)
                                    ELSE PFail(n)

\* The elements of an array from the value at t[i] on.
ParseElements(t, i, elems) ==
    LET v == ParseValue(t, i)
    IN IF ~v.ok THEN v
       ELSE LET n == SkipWs(t, v.i)
                got == Append(elems, v.v)
            IN IF n > Len(t) THEN PFail(n)
               ELSE IF t[n] = "]" THEN POk(PyList(got), n + 1)
               ELSE IF t[n] = "," THEN ParseElements(t, SkipWs(t, n + 1), got)
               ELSE PFail(n)

ParseValue(t, i) ==
    IF i > Len(t) THEN PFail(i)
    ELSE IF t[i] = QUOTE THEN ScanString(t, i + 1, <<>>)
    ELSE IF t[i] = "{"
         THEN LET n == SkipWs(t, i + 1)
              IN IF n <= Len(t) /\ t[n] = "}" THEN POk(PyDict(<<>>), n + 1)
                 ELSE ParseMembers(t, n, <<>>)
    ELSE IF t[i] = "["
         THEN LET n == SkipWs(t, i + 1)
              IN IF n <= Len(t) /\ t[n] = "]" THEN POk(PyList(<<>>), n + 1)
                 ELSE ParseElements(t, n, <<>>)
    ELSE IF MatchAt(t, i, TXT.null) THEN POk(PyNone, i + 4)
    ELSE IF MatchAt(t, i, TXT.true) THEN POk(PyBool(TRUE), i + 4)
    ELSE IF MatchAt(t, i, TXT.false) THEN POk(PyBool(FALSE), i + 5)
    ELSE IF t[i] \in DIGITS \cup {"-"} THEN ParseNumber(t, i)
    ELSE PFail(i)

\* json.loads(text): [ok, v]; ok = FALSE is json.JSONDecodeError.
json_loads(t) ==
    LET v == ParseValue(t, SkipWs(t, 1))
    IN IF v.ok /\ SkipWs(t, v.i) > Len(t) THEN [ok |-> TRUE, v |-> v.v]
       ELSE [ok |-> FALSE]

(***************************************************************************)
(* The builtins int() and float() on a Python object:                      *)
(* [ok, v] or [ok = FALSE, exc].  Not modelled for str arguments, and not  *)
(* in the replies enumerated: exponents, "inf", "nan", digit underscores.  *)
(***************************************************************************)
Raise(exc, msg) == [exc |-> exc, msg |-> msg]

\* [ok, sgn, j]: an optional sign at s[1], the index after it.
SignOf(s) == IF Len(s) >= 1 /\ s[1] \in {"+", "-"}
             THEN [sgn |-> IF s[1] = "-" THEN -1 ELSE 1, j |-> 2]
             ELSE [sgn |-> 1, j |-> 1]

py_int(v) ==
    CASE v.t = "int" -> [ok |-> TRUE, v |-> v.i]
      [] v.t = "bool" -> [ok |-> TRUE, v |-> IF v.b THEN 1 ELSE 0]
      [] v.t = "float" -> [ok |-> TRUE, v |-> Trunc(v.m, Pow10(v.e))]
      [] v.t = "str" ->
            LET s == Strip(v.s)
                sg == SignOf(s)
                d == ScanDigits(s, sg.j, 0)
            IN IF sg.j <= Len(s) /\ d.i = Len(s) + 1
               THEN [ok |-> TRUE, v |-> sg.sgn * d.n]
               ELSE [ok |-> FALSE, exc |-> Raise("ValueError", "invalid literal for int()")]
      [] OTHER -> [ok |-> FALSE, exc |-> Raise("TypeError", "int() argument")]

py_float(v) ==
    CASE v.t = "int" -> [ok |-> TRUE, v |-> PyFloat(v.i, 0)]
      [] v.t = "bool" -> [ok |-> TRUE, v |-> PyFloat(IF v.b THEN 1 ELSE 0, 0)]
      [] v.t = "float" -> [ok |-> TRUE, v |-> v]
      [] v.t = "str" ->
            LET s == Strip(v.s)
                sg == SignOf(s)
                ip == ScanDigits(s, sg.j, 0)
                dot == ip.i <= Len(s) /\ s[ip.i] = "."
                fp == IF dot THEN ScanDigits(s, ip.i + 1, ip.n) ELSE ip
                ndig == (ip.i - sg.j) + (IF dot THEN fp.i - (ip.i + 1) ELSE 0)
            IN IF ndig >= 1 /\ fp.i = Len(s) + 1
               THEN [ok |-> TRUE,
                     v |-> PyFloat(sg.sgn * fp.n, IF dot THEN fp.i - (ip.i + 1) ELSE 0)]
               ELSE [ok |-> FALSE, exc |-> Raise("ValueError", "could not convert string to float")]
      [] OTHER -> [ok |-> FALSE, exc |-> Raise("TypeError", "float() argument")]

(***************************************************************************)
(* dict operations: items are <<key, value>> in insertion order, the last  *)
(* binding of a key is the one a lookup finds (a repeated key overwrites). *)
(***************************************************************************)
DictHas(items, k) == \E n \in 1..Len(items) : items[n][1] = k

DictLookup(items, k) ==
    LET n == CHOOSE m \in 1..Len(items) :
                 /\ items[m][1] = k
                 /\ \A o \in (m + 1)..Len(items) : items[o][1] # k
    IN items[n][2]

\* data.get(k, default)
DictGet(items, k, default) == IF DictHas(items, k) THEN DictLookup(items, k) ELSE default

\* 'sentiment_score' in data: [ok, v] or the TypeError of a non-container.
py_in(k, data) ==
    CASE data.t = "dict" -> [ok |-> TRUE, v |-> DictHas(data.items, k)]
      [] data.t = "list" ->
            [ok |-> TRUE, v |-> \E n \in 1..Len(data.elems) : data.elems[n] = PyStr(k)]
      [] data.t = "str" -> [ok |-> TRUE, v |-> Contains(data.s, k)]
      [] OTHER -> [ok |-> FALSE, exc |-> Raise("TypeError", "argument is not iterable")]

(***************************************************************************)
(* SentimentResponse and _create_sentiment_response.                       *)
(***************************************************************************)
\* score_to_label without its last row.
LabelWithoutVeryPositive(s) == CASE s = 1 -> L.VeryNegative
                                 [] s = 2 -> L.Negative
                                 [] s = 3 -> L.Neutral
                                 [] OTHER -> L.Positive

score_to_label(s) == CASE s = 1 -> L.VeryNegative
                       [] s = 2 -> L.Negative
                       [] s = 3 -> L.Neutral
                       [] s = 4 -> L.Positive
                       [] s = 5 -> L.VeryPositive

SentimentResponse(score, label, conf, expl, lang, ptime) ==
    [sentiment_score |-> score, sentiment_label |-> label, confidence |-> conf,
     explanation |-> expl, language_detected |-> lang, processing_time |-> ptime]

Return(r) == [kind |-> "return", r |-> r]

Raised(e) == [kind |-> "raise", e |-> e]

InvalidScoreError(n) == [exc |-> "GeminiAPIError", msg |-> "Invalid sentiment_score", arg |-> n]

MissingScoreError == Raise("GeminiAPIError", "Missing sentiment_score in response")

ScoreInRange(n) == ~(n < 1 \/ n > 5)

DefaultConfidence == PyFloat(95, 2)

\* _create_sentiment_response without lines 320-321, the table consulted only
\* when the reply carries no label.
CreateWithoutRangeCheck(data) ==
    LET has == py_in(K.sentiment_score, data)
    IN IF ~has.ok THEN Raised(has.exc)
       ELSE IF ~has.v THEN Raised(MissingScoreError)
       ELSE IF data.t # "dict" THEN Raised(Raise("TypeError", "indices must be integers"))
       ELSE LET sc == py_int(DictLookup(data.items, K.sentiment_score))
            IN IF ~sc.ok THEN Raised(sc.exc)
               ELSE IF ~DictHas(data.items, K.sentiment_label) /\ ~ScoreInRange(sc.v)
                    THEN Raised(Raise("KeyError", "score_to_label"))
               ELSE LET label == IF DictHas(data.items, K.sentiment_label)
                                 THEN DictLookup(data.items, K.sentiment_label)
                                 ELSE PyStr(score_to_label(sc.v))
                        cf == py_float(DictGet(data.items, K.confidence, DefaultConfidence))
                    IN IF ~cf.ok THEN Raised(cf.exc)
                       ELSE Return(SentimentResponse(
                                sc.v, label, cf.v,
                                DictGet(data.items, K.explanation, PyStr(TXT.completed)),
                                DictGet(data.items, K.language_detected, PyStr(LANG.en)),
                                0))

_create_sentiment_response(data) ==
    LET has == py_in(K.sentiment_score, data)
    IN IF ~has.ok THEN Raised(has.exc)
       ELSE IF ~has.v THEN Raised(MissingScoreError)
       ELSE IF data.t # "dict" THEN Raised(Raise("TypeError", "indices must be integers"))
       ELSE LET sc == py_int(DictLookup(data.items, K.sentiment_score))
            IN IF ~sc.ok THEN Raised(sc.exc)
               ELSE IF ~ScoreInRange(sc.v) THEN Raised(InvalidScoreError(sc.v))
               ELSE LET label == DictGet(data.items, K.sentiment_label,
                                         PyStr(score_to_label(sc.v)))
                        cf == py_float(DictGet(data.items, K.confidence, DefaultConfidence))
                    IN IF ~cf.ok THEN Raised(cf.exc)
                       ELSE Return(SentimentResponse(
                                sc.v, label, cf.v,
                                DictGet(data.items, K.explanation, PyStr(TXT.completed)),
                                DictGet(data.items, K.language_detected, PyStr(LANG.en)),
                                0))

(***************************************************************************)
(* _clean_response_text.                                                   *)
(***************************************************************************)
\* The least element of a non-empty set of indices.
Least(S) == CHOOSE i \in S : \A j \in S : i <= j

RECURSIVE SubFenceJson(_, _, _)
\* re.sub(r'```json\s*', '', text): every occurrence from index i on, left to
\* right; acc is the text kept so far.
SubFenceJson(t, i, acc) ==
    LET at == {p \in i..Len(t) : MatchAt(t, p, TXT.fence_json)}
    IN IF at = {} THEN acc \o SubSeq(t, i, Len(t))
       ELSE SubFenceJson(t, SkipWs(t, Least(at) + Len(TXT.fence_json)),
                         acc \o SubSeq(t, i, Least(at) - 1))

\* re.sub(r'```\s*$', '', text): the leftmost fence that only whitespace follows.
SubTrailingFence(t) ==
    LET at == {i \in 1..Len(t) : MatchAt(t, i, TXT.fence) /\ SkipWs(t, i + Len(TXT.fence)) > Len(t)}
    IN IF at = {} THEN t
       ELSE SubSeq(t, 1, Least(at) - 1)

\* _clean_response_text without line 278: the trailing fence stays.
CleanLeadingFenceOnly(text) == Strip(SubFenceJson(text, 1, <<>>))

_clean_response_text(text) == Strip(SubTrailingFence(SubFenceJson(text, 1, <<>>)))

(***************************************************************************)
(* re.search(r'\{[^{}]*"sentiment_score"[^{}]*\}', text, re.DOTALL).       *)
(* A match from an opening brace at i exists iff the next brace after i is *)
(* a closing one and the quoted key lies between the two.                  *)
(***************************************************************************)
\* The index of the first brace at or after j, Len(t) + 1 when there is none.
NextBrace(t, j) ==
    LET at == {k \in j..Len(t) : t[k] \in {"{", "}"}}
    IN IF at = {} THEN Len(t) + 1 ELSE Least(at)

MatchFrom(t, i) ==
    LET j == NextBrace(t, i + 1)
        key == Quoted(K.sentiment_score)
    IN /\ t[i] = "{"
       /\ j <= Len(t)
       /\ t[j] = "}"
       /\ \E k \in (i + 1)..(j - Len(key)) : MatchAt(t, k, key)

\* [found, group]: json_match and json_match.group()
re_search_object(t) ==
    LET at == {i \in 1..Len(t) : MatchFrom(t, i)}
    IN IF at = {} THEN [found |-> FALSE]
       ELSE [found |-> TRUE, group |-> SubSeq(t, Least(at), NextBrace(t, Least(at) + 1))]

(***************************************************************************)
(* _is_truncated_json and _fix_truncated_json.                             *)
(***************************************************************************)
_is_truncated_json(text) ==
    LET t == Strip(text)
    IN /\ StartsWith(t, <<"{">>)
       /\ ~EndsWith(t, <<"}">>)
       /\ Contains(t, Quoted(K.sentiment_score))

\* _fix_truncated_json without lines 299-300: nothing completes a cut value.
FixWithoutValue(text) ==
    LET t == Strip(text)
        t1 == IF EndsWith(t, <<",">>) THEN SubSeq(t, 1, Len(t) - 1) ELSE t
    IN IF ~EndsWith(t1, <<"}">>) THEN t1 \o <<"}">> ELSE t1

_fix_truncated_json(text) ==
    LET t == Strip(text)
        t1 == IF EndsWith(t, <<QUOTE, ":">>) THEN t \o TXT.default_conf_sp
              ELSE IF EndsWith(t, <<":", " ">>) THEN t \o TXT.default_conf
              ELSE IF EndsWith(t, <<",">>) THEN SubSeq(t, 1, Len(t) - 1)
              ELSE t
    IN IF ~EndsWith(t1, <<"}">>) THEN t1 \o <<"}">> ELSE t1

(***************************************************************************)
(* _infer_sentiment_from_text.                                             *)
(***************************************************************************)
\* Words[n]: the keywords that give the score n.
Words ==
    <<{W.very_negative, W.terrible, W.awful, W.hate},
      {W.negative, W.bad, W.poor, W.disappointing},
      {W.neutral, W.factual, W.informational},
      {W.positive, W.good, W.great, W.happy},
      {W.very_positive, W.excellent, W.amazing, W.fantastic}>>

\* any(word in text_lower for word in words)
AnyIn(words, text_lower) == \E w \in words : Contains(text_lower, w)

\* InferScore on the text as it is, not lower-cased.
InferScoreCaseSensitive(text) ==
    IF AnyIn(Words[5], text) THEN 5
    ELSE IF AnyIn(Words[4], text) THEN 4
    ELSE IF AnyIn(Words[3], text) THEN 3
    ELSE IF AnyIn(Words[2], text) THEN 2
    ELSE IF AnyIn(Words[1], text) THEN 1
    ELSE 3

\* InferScore testing the groups from the score 1 up.
InferScoreWorstFirst(text) ==
    LET text_lower == Lower(text)
    IN IF AnyIn(Words[1], text_lower) THEN 1
       ELSE IF AnyIn(Words[2], text_lower) THEN 2
       ELSE IF AnyIn(Words[3], text_lower) THEN 3
       ELSE IF AnyIn(Words[4], text_lower) THEN 4
       ELSE IF AnyIn(Words[5], text_lower) THEN 5
       ELSE 3

InferScore(text) ==
    LET text_lower == Lower(text)
    IN IF AnyIn(Words[5], text_lower) THEN 5
       ELSE IF AnyIn(Words[4], text_lower) THEN 4
       ELSE IF AnyIn(Words[3], text_lower) THEN 3
       ELSE IF AnyIn(Words[2], text_lower) THEN 2
       ELSE IF AnyIn(Words[1], text_lower) THEN 1
       ELSE 3

FallbackConfidence == PyFloat(7, 1)

\* _infer_sentiment_from_text without the conditional of line 378: the
\* requested language is reported as it is.
InferKeepingLanguage(text, expected_language) ==
    LET sentiment_score == InferScore(text)
    IN SentimentResponse(sentiment_score,
                         PyStr(score_to_label(sentiment_score)),
                         FallbackConfidence,
                         PyStr(TXT.inferred),
                         PyStr(expected_language),
                         0)

_infer_sentiment_from_text(text, expected_language) ==
    LET sentiment_score == InferScore(text)
    IN SentimentResponse(sentiment_score,
                         PyStr(score_to_label(sentiment_score)),
                         FallbackConfidence,
                         PyStr(TXT.inferred),
                         PyStr(IF expected_language # LANG.auto THEN expected_language ELSE LANG.en),
                         0)

(***************************************************************************)
(* _parse_api_response: the decode chain.  Only json.JSONDecodeError is    *)
(* caught; whatever _create_sentiment_response raises leaves the chain.    *)
(* The outcome carries the stages that ran, in order.                      *)
(***************************************************************************)
WithStages(out, stages) == [kind |-> out.kind, stages |-> stages] @@ out

\* Stage 4 and 5: the truncation repair, then the fallback.
RepairThenInfer(cleaned_text, expected_language, stages) ==
    IF _is_truncated_json(cleaned_text)
    THEN LET fixed == json_loads(_fix_truncated_json(cleaned_text))
         IN IF fixed.ok
            THEN WithStages(_create_sentiment_response(fixed.v), Append(stages, "repair"))
            ELSE WithStages(Return(_infer_sentiment_from_text(cleaned_text, expected_language)),
                            stages \o <<"repair", "fallback">>)
    ELSE WithStages(Return(_infer_sentiment_from_text(cleaned_text, expected_language)),
                    Append(stages, "fallback"))

\* ExtractThenRepair trying the truncation repair before the extraction.
RepairBeforeExtract(cleaned_text, expected_language, stages) ==
    LET json_match == re_search_object(cleaned_text)
        fixed == json_loads(_fix_truncated_json(cleaned_text))
        tried == IF _is_truncated_json(cleaned_text) THEN Append(stages, "repair") ELSE stages
    IN IF _is_truncated_json(cleaned_text) /\ fixed.ok
       THEN WithStages(_create_sentiment_response(fixed.v), tried)
       ELSE IF json_match.found /\ json_loads(json_match.group).ok
       THEN WithStages(_create_sentiment_response(json_loads(json_match.group).v),
                       Append(tried, "extract"))
       ELSE WithStages(Return(_infer_sentiment_from_text(cleaned_text, expected_language)),
                       (IF json_match.found THEN Append(tried, "extract") ELSE tried)
                       \o <<"fallback">>)

\* Stage 3 on: the extraction from mixed content, then the rest.
ExtractThenRepair(cleaned_text, expected_language, stages) ==
    LET json_match == re_search_object(cleaned_text)
    IN IF json_match.found
       THEN LET got == json_loads(json_match.group)
            IN IF got.ok
               THEN WithStages(_create_sentiment_response(got.v), Append(stages, "extract"))
               ELSE RepairThenInfer(cleaned_text, expected_language, Append(stages, "extract"))
       ELSE RepairThenInfer(cleaned_text, expected_language, stages)

\* _parse_api_response catching every exception of a stage, not only
\* json.JSONDecodeError: a stage that raises gives way to the fallback.
ParseCatchingAll(response_text, expected_language) ==
    LET cleaned_text == _clean_response_text(response_text)
        direct == json_loads(cleaned_text)
        out == IF direct.ok
               THEN WithStages(_create_sentiment_response(direct.v), <<"clean", "direct">>)
               ELSE ExtractThenRepair(cleaned_text, expected_language, <<"clean", "direct">>)
    IN IF out.kind = "raise"
       THEN WithStages(Return(_infer_sentiment_from_text(cleaned_text, expected_language)),
                       Append(out.stages, "fallback"))
       ELSE out

_parse_api_response(response_text, expected_language) ==
    LET cleaned_text == _clean_response_text(response_text)
        direct == json_loads(cleaned_text)
    IN IF direct.ok
       THEN WithStages(_create_sentiment_response(direct.v), <<"clean", "direct">>)
       ELSE ExtractThenRepair(cleaned_text, expected_language, <<"clean", "direct">>)

(***************************************************************************)
(* The upstream reply of one attempt: session.post raises, or returns a    *)
(* response with a status code, headers and a body (what response.json()   *)
(* gives, or its failure).                                                 *)
(***************************************************************************)

\* The keys of the response envelope.
ENV ==
    [candidates |-> <<"c", "a", "n", "d", "i", "d", "a", "t", "e", "s">>,
     content |-> <<"c", "o", "n", "t", "e", "n", "t">>,
     parts |-> <<"p", "a", "r", "t", "s">>,
     finishReason |-> <<"f", "i", "n", "i", "s", "h", "R", "e", "a", "s", "o", "n">>,
     text |-> <<"t", "e", "x", "t">>]


PostRaises(exc) == [kind |-> "exception", exc |-> exc]

HttpResponse(status_code, headers, body) ==
    [kind |-> "http", status_code |-> status_code, headers |-> headers, body |-> body]

JsonBody(v) == [json_ok |-> TRUE, json |-> v]

NotJsonBody == [json_ok |-> FALSE]

\* bool(v)
Truthy(v) == CASE v.t = "None" -> FALSE
               [] v.t = "bool" -> v.b
               [] v.t = "int" -> v.i # 0
               [] v.t = "float" -> v.m # 0
               [] v.t = "str" -> v.s # <<>>
               [] v.t = "list" -> v.elems # <<>>
               [] v.t = "dict" -> v.items # <<>>

\* v[0] of a non-empty v
py_first(v) == CASE v.t = "list" -> [ok |-> TRUE, v |-> v.elems[1]]
                 [] v.t = "str" -> [ok |-> TRUE, v |-> PyStr(<<v.s[1]>>)]
                 [] v.t = "dict" -> [ok |-> FALSE, exc |-> Raise("KeyError", "0")]
                 [] OTHER -> [ok |-> FALSE, exc |-> Raise("TypeError", "object is not subscriptable")]

ApiError(msg) == [kind |-> "api_error", e |-> Raise("GeminiAPIError", msg)]

Escapes(exc) == [kind |-> "escape", e |-> exc]

NotSubscriptable == Raise("TypeError", "indices must be integers")

\* Lines 199-225: the structure check of the parsed body.
\* "text": the reply; "api_error": a GeminiAPIError raised inside the try;
\* "escape": an exception no except clause of the loop catches.
CheckStructure(response_data) ==
    LET CheckParts(candidate, content) ==
            LET parts == DictLookup(content.items, ENV.parts)
                p0 == py_first(parts)
            IN IF ~Truthy(parts) THEN ApiError("Empty parts array in response")
               ELSE IF ~p0.ok THEN Escapes(p0.exc)
               ELSE IF p0.v.t # "dict" THEN Escapes(Raise("AttributeError", "get"))
               ELSE LET response_text == DictGet(p0.v.items, ENV.text, PyStr(<<>>))
                    IN IF ~Truthy(response_text) THEN ApiError("Empty response text")
                       ELSE [kind |-> "text", text |-> response_text]

        CheckContent(candidate) ==
            LET content == DictLookup(candidate.items, ENV.content)
                hasParts == py_in(ENV.parts, content)
            IN IF ~hasParts.ok THEN Escapes(hasParts.exc)
               ELSE IF ~hasParts.v
                    THEN IF DictGet(candidate.items, ENV.finishReason, PyNone) = PyStr(TXT.MAX_TOKENS)
                         THEN ApiError("Response truncated due to token limit - increase maxOutputTokens")
                         ELSE ApiError("No parts in response content")
               ELSE IF content.t # "dict" THEN Escapes(NotSubscriptable)
               ELSE CheckParts(candidate, content)

        hasCands == py_in(ENV.candidates, response_data)
    IN IF ~hasCands.ok THEN Escapes(hasCands.exc)
       ELSE IF ~hasCands.v THEN ApiError("No candidates in response")
       ELSE IF response_data.t # "dict" THEN Escapes(NotSubscriptable)
       ELSE LET cands == DictLookup(response_data.items, ENV.candidates)
                c0 == py_first(cands)
            IN IF ~Truthy(cands) THEN ApiError("No candidates in response")
               ELSE IF ~c0.ok THEN Escapes(c0.exc)
               ELSE LET hasContent == py_in(ENV.content, c0.v)
                    IN IF ~hasContent.ok THEN Escapes(hasContent.exc)
                       ELSE IF ~hasContent.v THEN ApiError("No content in response candidate")
                       ELSE IF c0.v.t # "dict" THEN Escapes(NotSubscriptable)
                       ELSE CheckContent(c0.v)

StatusError(status_code) ==
    [kind |-> "api_error",
     e |-> [exc |-> "GeminiAPIError", msg |-> "API returned status", arg |-> status_code]]

\* AttemptBody sleeping on a 429 of the last attempt too (attempt < max_retries).
AttemptBodyAlwaysWaiting(resp, attempt, max_retries) ==
    IF resp.kind = "exception"
    THEN IF resp.exc \in {"Timeout", "ConnectionError"}
         THEN [kind |-> "transport", e |-> Raise(resp.exc, "request failed")]
         ELSE Escapes(Raise(resp.exc, "request failed"))
    ELSE IF resp.status_code = 429
         THEN LET retry_after == py_int(DictGet(resp.headers, TXT.RetryAfter, PyStr(TXT.sixty)))
              IN IF ~retry_after.ok THEN Escapes(retry_after.exc)
                 ELSE IF attempt < max_retries
                      THEN [kind |-> "rate_wait", retry_after |-> retry_after.v]
                      ELSE ApiError("Rate limit exceeded")
    ELSE IF resp.status_code # 200 THEN StatusError(resp.status_code)
    ELSE IF ~resp.body.json_ok THEN Escapes(Raise("JSONDecodeError", "response.json()"))
    ELSE CheckStructure(resp.body.json)

\* AttemptBody raising an error no except clause catches on a status other than 200.
AttemptBodyFatalStatus(resp, attempt, max_retries) ==
    IF resp.kind = "exception"
    THEN IF resp.exc \in {"Timeout", "ConnectionError"}
         THEN [kind |-> "transport", e |-> Raise(resp.exc, "request failed")]
         ELSE Escapes(Raise(resp.exc, "request failed"))
    ELSE IF resp.status_code = 429
         THEN LET retry_after == py_int(DictGet(resp.headers, TXT.RetryAfter, PyStr(TXT.sixty)))
              IN IF ~retry_after.ok THEN Escapes(retry_after.exc)
                 ELSE IF attempt < max_retries - 1
                      THEN [kind |-> "rate_wait", retry_after |-> retry_after.v]
                      ELSE ApiError("Rate limit exceeded")
    ELSE IF resp.status_code # 200 THEN Escapes(StatusError(resp.status_code).e)
    ELSE IF ~resp.body.json_ok THEN Escapes(Raise("JSONDecodeError", "response.json()"))
    ELSE CheckStructure(resp.body.json)

\* AttemptBody handing on the reply text cleaned of its code fences.
AttemptBodyCleaning(resp, attempt, max_retries) ==
    IF resp.kind = "exception"
    THEN IF resp.exc \in {"Timeout", "ConnectionError"}
         THEN [kind |-> "transport", e |-> Raise(resp.exc, "request failed")]
         ELSE Escapes(Raise(resp.exc, "request failed"))
    ELSE IF resp.status_code = 429
         THEN LET retry_after == py_int(DictGet(resp.headers, TXT.RetryAfter, PyStr(TXT.sixty)))
              IN IF ~retry_after.ok THEN Escapes(retry_after.exc)
                 ELSE IF attempt < max_retries - 1
                      THEN [kind |-> "rate_wait", retry_after |-> retry_after.v]
                      ELSE ApiError("Rate limit exceeded")
    ELSE IF resp.status_code # 200 THEN StatusError(resp.status_code)
    ELSE IF ~resp.body.json_ok THEN Escapes(Raise("JSONDecodeError", "response.json()"))
    ELSE LET got == CheckStructure(resp.body.json)
         IN IF got.kind = "text" /\ got.text.t = "str"
            THEN [got EXCEPT !.text = PyStr(_clean_response_text(got.text.s))]
            ELSE got

\* Lines 172-225: what the body of the try does with the reply of attempt
\* `attempt`, before any except clause.  "rate_wait": the 429 branch that
\* sleeps and continues.
AttemptBody(resp, attempt, max_retries) ==
    IF resp.kind = "exception"
    THEN IF resp.exc \in {"Timeout", "ConnectionError"}
         THEN [kind |-> "transport", e |-> Raise(resp.exc, "request failed")]
         ELSE Escapes(Raise(resp.exc, "request failed"))
    ELSE IF resp.status_code = 429
         THEN LET retry_after == py_int(DictGet(resp.headers, TXT.RetryAfter, PyStr(TXT.sixty)))
              IN IF ~retry_after.ok THEN Escapes(retry_after.exc)
                 ELSE IF attempt < max_retries - 1
                      THEN [kind |-> "rate_wait", retry_after |-> retry_after.v]
                      ELSE ApiError("Rate limit exceeded")
    ELSE IF resp.status_code # 200 THEN StatusError(resp.status_code)
    ELSE IF ~resp.body.json_ok THEN Escapes(Raise("JSONDecodeError", "response.json()"))
    ELSE CheckStructure(resp.body.json)

\* FailedAfter reporting the index of the last attempt, not the count.
FailedAfterIndex(max_retries, e) ==
    [exc |-> "GeminiAPIError", msg |-> "API request failed after",
     attempts |-> max_retries - 1, cause |-> e]

\* Lines 229 and 234: the error of the last attempt, wrapped.
FailedAfter(max_retries, e) ==
    [exc |-> "GeminiAPIError", msg |-> "API request failed after",
     attempts |-> max_retries, cause |-> e]

\* Line 51: self.api_url, as the parts of the f-string.  The last part is the credential.
api_url ==
    <<"https://generativelanguage.googleapis.com", "/v1beta/models/", "{config.model_name}",
      ":generateContent?key=", "{config.api_key}">>

\* str(e) at lines 229-230 for an exception of session.post: the texts that
\* requests and urllib3 give a read timeout, a connect timeout, a failed
\* connection and a dropped connection.  The ones that urllib3 words as
\* "Max retries exceeded with url" name the path and the query of the URL.
ExceptionTexts(exc, timeout) ==
    LET pool == "HTTPSConnectionPool(host='generativelanguage.googleapis.com', port=443): "
        with_url(cause) == <<pool, "Max retries exceeded with url: ">>
                           \o SubSeq(api_url, 2, Len(api_url)) \o <<" (Caused by ", cause, ")">>
    IN IF exc = "Timeout"
       THEN {<<pool, "Read timed out. (read timeout=", ToString(timeout), ")">>,
             with_url("ConnectTimeoutError")}
       ELSE {with_url("NewConnectionError"),
             <<"('Connection aborted.', RemoteDisconnected(",
               "'Remote end closed connection without response'))">>}

\* Lines 229 and 234: str() of the error of the last attempt, str_e being str(e).
ErrorText(max_retries, str_e) ==
    <<"API request failed after ", ToString(max_retries), " attempts: ">> \o str_e

\* Line 77: what analyze_sentiment logs for an error of text message.
FailureLog(message) == <<"Sentiment analysis failed: ">> \o message

MaxRetriesExceeded == Raise("GeminiAPIError", "Max retries exceeded")

\* min(2 ** attempt, 60)
BackoffCap == 60

\* Delay without the cap.
DelayUncapped(attempt) == 2 ^ attempt

\* Delay counting the pauses from one: 1s before the second attempt.
DelayFromOne(attempt) ==
    IF 2 ^ (attempt - 1) < BackoffCap THEN 2 ^ (attempt - 1) ELSE BackoffCap

Delay(attempt) == IF 2 ^ attempt < BackoffCap THEN 2 ^ attempt ELSE BackoffCap

(***************************************************************************)
(* _create_sentiment_prompt and the request payload.  The prompt is an     *)
(* f-string; the model keeps the parts the request decides.                *)
(***************************************************************************)

\* language_instructions without the entry of lines 104-109: zh has no block.
InstructionsWithoutChinese(detected_lang) ==
    IF detected_lang \in {LANG.ja, LANG.ko, LANG.en} THEN detected_lang ELSE LANG.en

\* language_instructions.get(detected_lang, language_instructions['en']);
\* a block is named by the language it is written for.
language_instructions(detected_lang) ==
    IF detected_lang \in {LANG.ja, LANG.ko, LANG.zh, LANG.en} THEN detected_lang ELSE LANG.en

_create_sentiment_prompt(req) ==
    LET detected_lang == IF req.language # LANG.auto THEN req.language ELSE LANG.en
    IN [text |-> req.text,
        language |-> req.language,
        context |-> IF Truthy(req.context) THEN req.context ELSE PyStr(TXT.general),
        cultural_context |-> language_instructions(detected_lang)]

GenerationConfig ==
    [temperature |-> PyFloat(1, 1), topP |-> PyFloat(9, 1), topK |-> 20,
     maxOutputTokens |-> 1024, stopSequences |-> <<>>, candidateCount |-> 1]

\* A payload whose output limit follows the request: doubled when the request
\* has a context of its own.
PayloadSizedToPrompt(p) ==
    [contents |-> <<[parts |-> <<[text |-> p]>>]>>,
     generationConfig |-> [GenerationConfig EXCEPT
                             !.maxOutputTokens = IF p.context = PyStr(TXT.general) THEN 1024 ELSE 2048]]

Payload(p) == [contents |-> <<[parts |-> <<[text |-> p]>>]>>,
               generationConfig |-> GenerationConfig]

(***************************************************************************)
(* Bounds of the model.                                                    *)
(***************************************************************************)
\* max_retries of an analysis call ranges over 0..MaxRetries.
MaxRetries == 2
\* max_retries of a call of _make_api_request alone ranges over 0..MaxRetriesSend.
MaxRetriesSend == 7
\* The sentiment_score of an enumerated reply ranges over 0..MaxScore.
MaxScore == 7
\* A prose reply has at most MaxWords words.
MaxWords == 2
\* The time a call takes beyond its sleeps ranges over 0..MaxExtraTime.
MaxExtraTime == 1

\* GeminiConfig.timeout
DefaultTimeout == 30

(***************************************************************************)
(* The replies enumerated: what the upstream model may answer.             *)
(***************************************************************************)
RECURSIVE NatText(_)
\* The decimal digits of n.
NatText(n) == IF n < 10 THEN <<DigitChar(n)>> ELSE NatText(n \div 10) \o <<DigitChar(n % 10)>>

RECURSIVE Join(_, _)
\* sep.join(texts)
Join(texts, sep) == IF texts = <<>> THEN <<>>
                    ELSE IF Len(texts) = 1 THEN texts[1]
                    ELSE texts[1] \o sep \o Join(Tail(texts), sep)

Pair(k, v) == Quoted(k) \o <<":", " ">> \o v

Obj(pairs) == <<"{">> \o Join(pairs, <<",", " ">>) \o <<"}">>

ScorePair(n) == Pair(K.sentiment_score, NatText(n))

\* J in a markdown code fence.
Fenced(j) == TXT.fence_json \o <<NL>> \o j \o <<NL>> \o TXT.fence

\* Prose around a reply.
Prose == [result |-> <<"R", "e", "s", "u", "l", "t", ":", " ">>,
          done |-> <<" ", "d", "o", "n", "e">>]

\* The replies handed to _parse_api_response: JSON objects (as the sequences
\* of their members) and other JSON values, bare or fenced, objects with prose
\* around them, replies cut anywhere, and prose of keywords.
RawTexts ==
    LET ScoreTexts == {NatText(n) : n \in 0..MaxScore}
                      \cup {<<"-", "1">>, <<"4", ".", "7">>, <<"5", ".", "9">>, TXT.default_conf,
                            Quoted(<<"4">>), Quoted(<<"7">>),
                            Quoted(<<"a", "b", "c">>), TXT.null, TXT.true}
        ConfTexts == {<<"0", ".", "5">>, <<"1", ".", "5">>, <<"1">>, <<"-", "0", ".", "2">>, TXT.null,
                      Quoted(<<"h", "i", "g", "h">>), Quoted(<<"0", ".", "8">>)}
        LabelTexts == {Quoted(L.Positive), Quoted(L.Negative), Quoted(<<"G", "r", "e", "a", "t">>),
                       TXT.null}
        ExplTexts == {Quoted(<<"o", "k">>), Quoted(<<"a", "}", "b">>), Quoted(<<"{", "x">>),
                      Quoted(W.terrible)}
        Members ==
            {<<Pair(K.sentiment_score, s)>> : s \in ScoreTexts}
            \cup {<<ScorePair(4), Pair(K.confidence, c)>> : c \in ConfTexts}
            \cup {<<ScorePair(n), Pair(K.sentiment_label, l)>> : n \in {2, 4}, l \in LabelTexts}
            \cup {<<ScorePair(4), Pair(K.explanation, e)>> : e \in ExplTexts}
            \cup {<<ScorePair(n), Pair(K.sentiment_label, Quoted(L.Positive)),
                    Pair(K.confidence, <<"0", ".", "9">>), Pair(K.language_detected, Quoted(LANG.ja)),
                    Pair(K.explanation, Quoted(<<"o", "k">>))>> : n \in {4, MaxScore}}
            \cup {<<ScorePair(MaxScore), ScorePair(4)>>,
                  <<>>,
                  <<Pair(K.sentiment_label, Quoted(L.Positive))>>,
                  <<Pair(K.confidence, <<"0", ".", "5">>)>>,
                  <<Pair(<<"r", "e", "s", "u", "l", "t">>, Obj(<<ScorePair(4)>>))>>}
        JsonObjects == {Obj(m) : m \in Members}
        JsonOthers == {<<"4">>, Quoted(W.terrible), Quoted(K.sentiment_score), <<"[", "]">>, TXT.null,
                       <<"[">> \o Quoted(K.sentiment_score) \o <<"]">>}
        JsonReplies == JsonObjects \cup JsonOthers
        FencedReplies == {Fenced(j) : j \in JsonReplies}
                         \cup {TXT.fence_json \o j \o TXT.fence \o <<NL>> : j \in JsonObjects}
                         \cup {TXT.fence \o <<NL>> \o j \o <<NL>> \o TXT.fence : j \in JsonObjects}
        MixedReplies == {pre \o j \o post : pre \in {<<>>, Prose.result}, post \in {<<>>, Prose.done},
                                            j \in JsonObjects} \ JsonObjects
        Prefixes(t) == {SubSeq(t, 1, k) : k \in 1..(Len(t) - 1)}
        TruncationBases ==
            {Obj(<<ScorePair(4), Pair(K.confidence, <<"0", ".", "9">>)>>),
             Obj(<<ScorePair(4), Pair(K.sentiment_label, Quoted(L.Positive)),
                   Pair(K.explanation, Quoted(<<"o", "k">>))>>),
             Obj(<<Pair(K.confidence, <<"0", ".", "5">>), ScorePair(MaxScore)>>)}
        TruncatedReplies ==
            UNION {Prefixes(b) : b \in TruncationBases}
            \cup {TXT.fence_json \o <<NL>> \o p :
                    p \in Prefixes(Obj(<<ScorePair(4), Pair(K.confidence, <<"0", ".", "9">>)>>))}
            \cup {<<"{">> \o ScorePair(4) \o <<",", " ">> \o Quoted(K.confidence) \o <<" ", ":", " ">>}
        ProseWords == {W.terrible, <<"T", "E", "R", "R", "I", "B", "L", "E">>, W.hate, W.very_negative,
                       W.negative, W.bad, W.neutral, W.good, W.happy, W.very_positive, W.excellent,
                       <<"f", "i", "n", "e">>}
        WordSeqs[n \in 0..MaxWords] ==
            IF n = 0 THEN {<<>>}
            ELSE {Append(s, w) : s \in WordSeqs[n - 1], w \in ProseWords}
        ProseReplies == {Join(s, <<" ">>) : s \in UNION {WordSeqs[n] : n \in 0..MaxWords}}
    IN JsonReplies \cup FencedReplies \cup MixedReplies \cup TruncatedReplies \cup ProseReplies

Languages == {LANG.auto, LANG.ja, LANG.ko, LANG.zh, LANG.en, LANG.fr}

\* The replies of an analysis call end to end.
SampleTexts == {Obj(<<ScorePair(4)>>),
                Obj(<<ScorePair(MaxScore)>>),
                Prose.result \o Obj(<<ScorePair(MaxScore)>>) \o Prose.done,
                <<"{">> \o Pair(K.confidence, <<"0", ".", "5">>) \o <<",", " ">>
                        \o ScorePair(MaxScore),
                Obj(<<ScorePair(0)>>),
                Obj(<<Pair(K.sentiment_label, Quoted(L.Positive))>>),
                Fenced(Obj(<<ScorePair(5), Pair(K.confidence, <<"0", ".", "5">>)>>)),
                <<"{">> \o ScorePair(4) \o <<",", " ">> \o Quoted(K.confidence) \o <<":">>,
                Prose.result \o W.terrible}

EnvelopeOf(text) ==
    PyDict(<< <<ENV.candidates,
                PyList(<<PyDict(<< <<ENV.content,
                                     PyDict(<< <<ENV.parts,
                                                 PyList(<<PyDict(<< <<ENV.text, text>> >>)>>)>> >>)>>,
                                   <<ENV.finishReason, PyStr(TXT.STOP)>> >>)>>)>> >>)

CandidateEnvelope(c) == PyDict(<< <<ENV.candidates, PyList(<<c>>)>> >>)

\* Bodies of an HTTP 200 that carry no reply text.
BadBodies ==
    {NotJsonBody,
     JsonBody(PyNone),
     JsonBody(PyList(<<>>)),
     JsonBody(PyDict(<<>>)),
     JsonBody(PyDict(<< <<ENV.candidates, PyList(<<>>)>> >>)),
     JsonBody(CandidateEnvelope(PyDict(<< <<ENV.finishReason, PyStr(TXT.STOP)>> >>))),
     JsonBody(CandidateEnvelope(PyDict(<< <<ENV.content, PyDict(<<>>)>>,
                                          <<ENV.finishReason, PyStr(TXT.MAX_TOKENS)>> >>))),
     JsonBody(CandidateEnvelope(PyDict(<< <<ENV.content, PyDict(<<>>)>> >>))),
     JsonBody(CandidateEnvelope(PyDict(<< <<ENV.content, PyNone>> >>))),
     JsonBody(CandidateEnvelope(PyDict(<< <<ENV.content,
                                            PyDict(<< <<ENV.parts, PyList(<<>>)>> >>)>> >>))),
     JsonBody(CandidateEnvelope(PyDict(<< <<ENV.content,
                                            PyDict(<< <<ENV.parts,
                                                        PyList(<<PyDict(<<>>)>>)>> >>)>> >>))),
     JsonBody(EnvelopeOf(PyStr(<<>>)))}

RetryAfterHeaders == {<<>>,
                      << <<TXT.RetryAfter, PyStr(<<"5">>)>> >>,
                      << <<TXT.RetryAfter, PyStr(<<"s", "o", "o", "n">>)>> >>}

\* What session.post may do on one attempt, the reply text being one of texts.
Replies(texts) ==
    {PostRaises(e) : e \in {"Timeout", "ConnectionError", "TooManyRedirects"}}
    \cup {HttpResponse(429, h, NotJsonBody) : h \in RetryAfterHeaders}
    \cup {HttpResponse(st, <<>>, NotJsonBody) : st \in {404, 500}}
    \cup {HttpResponse(200, <<>>, b) : b \in BadBodies}
    \cup {HttpResponse(200, <<>>, JsonBody(EnvelopeOf(PyStr(t)))) : t \in texts}

(***************************************************************************)
(* The state of one analysis call.                                         *)
(***************************************************************************)
VARIABLES
    config,         \* GeminiConfig: max_retries and timeout
    request,        \* the SentimentAnalysisRequest
    pc,             \* where the call is
    prompt,         \* what _create_sentiment_prompt built
    attempt,        \* the loop variable of _make_api_request
    response,       \* what session.post did on the current attempt
    events,         \* the sleeps and POSTs of the call so far, in order
    only_transport, \* every attempt so far ended in Timeout or ConnectionError
    response_text,  \* what _make_api_request returned
    parsed,         \* what _parse_api_response returned
    outcome         \* what the call returned or raised

\* The state of one HTTP request to the Flask front-end (standalone_app.py).
VARIABLES
    http_request,   \* the endpoint, request.is_json and request.get_json()
    app_pc,         \* where the endpoint function is
    batch_i,        \* i, the loop index of batch_analyze
    results,        \* the results list of batch_analyze
    successful,     \* its counter of analysed items
    failed,         \* its counter of failed items
    client_calls,   \* the requests gemini_client.analyze_sentiment was called with
    http_response   \* what the endpoint returned

\* Two analysis calls in flight on one GeminiClient.
VARIABLES
    calls,          \* per call: the locals of _make_api_request and its outcome
    session         \* self.session: the POSTs sent through it, in order

client_vars == <<config, request, pc, prompt, attempt, response, events, only_transport,
                 response_text, parsed, outcome>>

app_vars == <<http_request, app_pc, batch_i, results, successful, failed, client_calls,
              http_response>>

pair_vars == <<calls, session>>

\* The launcher run_standalone.py: its position, the Config it loaded, the
\* result of config.validate() and the configuration the client was made with.
VARIABLE launch

vars == <<client_vars, app_vars, pair_vars, launch>>

None == [kind |-> "none"]

\* No HTTP request is being served.
AppIdle ==
    /\ http_request = None
    /\ app_pc = "idle"
    /\ batch_i = 0
    /\ results = <<>>
    /\ successful = 0
    /\ failed = 0
    /\ client_calls = <<>>
    /\ http_response = None

\* No pair of calls is in flight.
PairIdle ==
    /\ calls = <<>>
    /\ session = <<>>

\* A time.sleep(d); why tells the line that sleeps: "backoff" (170) or "retry_after" (183).
SleepEvent(d, why) == [e |-> "sleep", d |-> d, why |-> why]

\* A POST that always takes the default timeout, whatever the configuration.
PostEventDefaultTimeout(p, timeout) == [e |-> "post", json |-> Payload(p), timeout |-> DefaultTimeout]

PostEvent(p, timeout) == [e |-> "post", json |-> Payload(p), timeout |-> timeout]

Requests == {[text |-> <<"h", "i">>, language |-> l, context |-> c] :
                l \in Languages, c \in {PyNone, PyStr(<<>>), PyStr(<<"c", "h", "a", "t">>)}}

Configs(n) == {[max_retries |-> m, timeout |-> DefaultTimeout] : m \in 0..n}

\* analyze_sentiment is called.
Init ==
    /\ AppIdle
    /\ PairIdle
    /\ launch = None
    /\ config \in Configs(MaxRetries)
    /\ request \in Requests
    /\ pc = "start"
    /\ prompt = None
    /\ attempt = 0
    /\ response = None
    /\ events = <<>>
    /\ only_transport = TRUE
    /\ response_text = None
    /\ parsed = None
    /\ outcome = None

\* _make_api_request is called with a prompt.
InitSend ==
    /\ AppIdle
    /\ PairIdle
    /\ launch = None
    /\ config \in {[max_retries |-> m, timeout |-> t] : m \in -1..MaxRetriesSend, t \in {5, DefaultTimeout}}
    /\ request \in {r \in Requests : r.language = LANG.auto /\ r.context = PyNone}
    /\ pc = "loop"
    /\ prompt = _create_sentiment_prompt(request)
    /\ attempt = 0
    /\ response = None
    /\ events = <<>>
    /\ only_transport = TRUE
    /\ response_text = None
    /\ parsed = None
    /\ outcome = None

\* _parse_api_response is called with a reply and the requested language.
InitDecode ==
    /\ AppIdle
    /\ PairIdle
    /\ launch = None
    /\ config \in Configs(1) \ Configs(0)
    /\ request \in {r \in Requests : r.context = PyNone}
    /\ pc = "parse"
    /\ prompt = _create_sentiment_prompt(request)
    /\ attempt = 0
    /\ response = None
    /\ events = <<>>
    /\ only_transport = TRUE
    /\ response_text \in {PyStr(t) : t \in RawTexts}
    /\ parsed = None
    /\ outcome = None

\* Lines 55-61.
CreatePrompt ==
    /\ UNCHANGED <<app_vars, pair_vars, launch>>
    /\ pc = "start"
    /\ prompt' = _create_sentiment_prompt(request)
    /\ pc' = "loop"
    /\ UNCHANGED <<config, request, attempt, response, events, only_transport,
                   response_text, parsed, outcome>>

\* BeginAttempt without the backoff when the Retry-After sleep was just made.
BeginAttemptAfterWait ==
    /\ UNCHANGED <<app_vars, pair_vars, launch>>
    /\ pc = "loop"
    /\ attempt < config.max_retries
    /\ events' = IF attempt > 0 /\ events[Len(events)].e # "sleep"
                 THEN Append(events, SleepEvent(Delay(attempt), "backoff"))
                 ELSE events
    /\ pc' = "post"
    /\ UNCHANGED <<config, request, prompt, attempt, response, only_transport,
                   response_text, parsed, outcome>>

\* Lines 165-170: the loop takes the next attempt, after the backoff sleep.
BeginAttempt ==
    /\ UNCHANGED <<app_vars, pair_vars, launch>>
    /\ pc = "loop"
    /\ attempt < config.max_retries
    /\ events' = IF attempt > 0 THEN Append(events, SleepEvent(Delay(attempt), "backoff")) ELSE events
    /\ pc' = "post"
    /\ UNCHANGED <<config, request, prompt, attempt, response, only_transport,
                   response_text, parsed, outcome>>

\* LoopExhausted without line 238, spinning where the loop ended.
LoopExhaustedSpinning ==
    /\ pc = "loop"
    /\ ~(attempt < config.max_retries)
    /\ UNCHANGED vars

\* Line 238: the loop ends without a return or a raise.
LoopExhausted ==
    /\ UNCHANGED <<app_vars, pair_vars, launch>>
    /\ pc = "loop"
    /\ ~(attempt < config.max_retries)
    /\ outcome' = Raised(MaxRetriesExceeded)
    /\ pc' = "done"
    /\ UNCHANGED <<config, request, prompt, attempt, response, events, only_transport,
                   response_text, parsed>>

\* Lines 172-177: the POST, and whatever the upstream does with it.
PostTo(texts) ==
    /\ UNCHANGED <<app_vars, pair_vars, launch>>
    /\ pc = "post"
    /\ \E r \in Replies(texts) : response' = r
    /\ events' = Append(events, PostEvent(prompt, config.timeout))
    /\ pc' = "classify"
    /\ UNCHANGED <<config, request, prompt, attempt, only_transport, response_text,
                   parsed, outcome>>

Post == PostTo(SampleTexts)

Body == AttemptBody(response, attempt, config.max_retries)

\* Lines 179-184: a 429 with attempts left.
RateLimitWait ==
    /\ UNCHANGED <<app_vars, pair_vars, launch>>
    /\ pc = "classify"
    /\ Body.kind = "rate_wait"
    /\ events' = Append(events, SleepEvent(Body.retry_after, "retry_after"))
    /\ attempt' = attempt + 1
    /\ only_transport' = FALSE
    /\ pc' = "loop"
    /\ UNCHANGED <<config, request, prompt, response, response_text, parsed, outcome>>

\* The two except clauses do the same: raise on the last attempt, else continue.
Caught(e) ==
    IF attempt = config.max_retries - 1
    THEN /\ outcome' = Raised(FailedAfter(config.max_retries, e))
         /\ pc' = "done"
         /\ UNCHANGED attempt
    ELSE /\ attempt' = attempt + 1
         /\ pc' = "loop"
         /\ UNCHANGED outcome

\* Lines 227-231.
HandleTransportError ==
    /\ UNCHANGED <<app_vars, pair_vars, launch>>
    /\ pc = "classify"
    /\ Body.kind = "transport"
    /\ Caught(Body.e)
    /\ UNCHANGED <<config, request, prompt, response, events, only_transport,
                   response_text, parsed>>

\* Lines 232-236.
HandleGeminiAPIError ==
    /\ UNCHANGED <<app_vars, pair_vars, launch>>
    /\ pc = "classify"
    /\ Body.kind = "api_error"
    /\ Caught(Body.e)
    /\ only_transport' = FALSE
    /\ UNCHANGED <<config, request, prompt, response, events, response_text, parsed>>

\* An exception that no except clause of the loop catches leaves the call.
Uncaught ==
    /\ UNCHANGED <<app_vars, pair_vars, launch>>
    /\ pc = "classify"
    /\ Body.kind = "escape"
    /\ outcome' = Raised(Body.e)
    /\ only_transport' = FALSE
    /\ pc' = "done"
    /\ UNCHANGED <<config, request, prompt, attempt, response, events, response_text, parsed>>

\* Line 225.
ReturnText ==
    /\ UNCHANGED <<app_vars, pair_vars, launch>>
    /\ pc = "classify"
    /\ Body.kind = "text"
    /\ response_text' = Body.text
    /\ only_transport' = FALSE
    /\ pc' = "parse"
    /\ UNCHANGED <<config, request, prompt, attempt, response, events, parsed, outcome>>

\* ParseResponse sending the call back to the loop when the decode raises.
ParseResponseRetrying ==
    /\ UNCHANGED <<app_vars, pair_vars, launch>>
    /\ pc = "parse"
    /\ LET out == IF response_text.t = "str"
                  THEN _parse_api_response(response_text.s, request.language)
                  ELSE [kind |-> "raise", stages |-> <<"clean">>,
                        e |-> Raise("TypeError", "expected string")]
       IN /\ parsed' = out
          /\ IF out.kind = "raise"
             THEN outcome' = outcome /\ pc' = "loop" /\ attempt' = attempt + 1
             ELSE outcome' = outcome /\ pc' = "time" /\ attempt' = attempt
    /\ UNCHANGED <<config, request, prompt, response, events, only_transport, response_text>>

\* Line 67, and lines 76-78 when it raises.
ParseResponse ==
    /\ UNCHANGED <<app_vars, pair_vars, launch>>
    /\ pc = "parse"
    /\ LET out == IF response_text.t = "str"
                  THEN _parse_api_response(response_text.s, request.language)
                  ELSE [kind |-> "raise", stages |-> <<"clean">>,
                        e |-> Raise("TypeError", "expected string")]
       IN /\ parsed' = out
          /\ IF out.kind = "raise"
             THEN outcome' = Raised(out.e) /\ pc' = "done"
             ELSE outcome' = outcome /\ pc' = "time"
    /\ UNCHANGED <<config, request, prompt, attempt, response, events, only_transport,
                   response_text>>

RECURSIVE Slept(_)
\* The seconds slept in evs.
Slept(evs) == IF evs = <<>> THEN 0
              ELSE (IF Head(evs).e = "sleep" THEN Head(evs).d ELSE 0) + Slept(Tail(evs))

\* SetProcessingTime returning a result built anew from the score.
SetProcessingTimeRebuilding ==
    /\ UNCHANGED <<app_vars, pair_vars, launch>>
    /\ pc = "time"
    /\ \E extra \in 0..MaxExtraTime :
          outcome' = Return(SentimentResponse(parsed.r.sentiment_score,
                                              PyStr(score_to_label(parsed.r.sentiment_score)),
                                              DefaultConfidence, PyStr(TXT.completed),
                                              PyStr(LANG.en), Slept(events) + extra))
    /\ pc' = "done"
    /\ UNCHANGED <<config, request, prompt, attempt, response, events, only_transport,
                   response_text, parsed>>

\* Lines 70-74.
SetProcessingTime ==
    /\ UNCHANGED <<app_vars, pair_vars, launch>>
    /\ pc = "time"
    /\ \E extra \in 0..MaxExtraTime :
          outcome' = Return([parsed.r EXCEPT !.processing_time = Slept(events) + extra])
    /\ pc' = "done"
    /\ UNCHANGED <<config, request, prompt, attempt, response, events, only_transport,
                   response_text, parsed>>

SendStep == \/ BeginAttempt
            \/ LoopExhausted
            \/ Post
            \/ RateLimitWait
            \/ HandleTransportError
            \/ HandleGeminiAPIError
            \/ Uncaught
            \/ ReturnText

DecodeStep == ParseResponse \/ SetProcessingTime

Next == CreatePrompt \/ SendStep \/ DecodeStep

Spec == Init /\ [][Next]_vars

\* Line 67 returns or raises: the step of ParseResponse, told by where it
\* leaves the call (it is the only step from "parse", and always possible).
DecodeEnds == pc = "parse" /\ pc' \in {"time", "done"}

\* analyze_sentiment runs in one thread: while a step is possible (a POST that
\* returns or fails within its timeout, a sleep that ends, a line of code), a
\* step is taken.
\* analyze_sentiment is called with a request without a context: the context
\* changes the prompt and no step after it.
InitLive ==
    /\ AppIdle
    /\ PairIdle
    /\ launch = None
    /\ config \in Configs(MaxRetries)
    /\ request \in {r \in Requests : r.context = PyNone}
    /\ pc = "start"
    /\ prompt = None
    /\ attempt = 0
    /\ response = None
    /\ events = <<>>
    /\ only_transport = TRUE
    /\ response_text = None
    /\ parsed = None
    /\ outcome = None

SpecLive ==
    /\ InitLive
    /\ [][Next]_vars
    /\ WF_vars(CreatePrompt) /\ WF_vars(SendStep) /\ WF_pc(DecodeEnds) /\ WF_vars(SetProcessingTime)

SpecSend == InitSend /\ [][SendStep]_vars

SpecDecode == InitDecode /\ [][DecodeStep]_vars

(***************************************************************************)
(* The Flask front-end (standalone_app.py): /api/analyze and /api/batch.   *)
(* A text of a request is kept as its runs, <<character, count>> pairs, so *)
(* that texts around the 10,000 character limit stay small values.         *)
(***************************************************************************)
\* len(text) > 10000
TextLimit == 10000

\* len(texts) > 50
BatchLimit == 50

\* The longest batch below the limit that is enumerated.
MaxBatch == 2

\* The keys of the request bodies.
APPK ==
    [texts |-> <<"t", "e", "x", "t", "s">>,
     text |-> <<"t", "e", "x", "t">>,
     id |-> <<"i", "d">>,
     language |-> <<"l", "a", "n", "g", "u", "a", "g", "e">>,
     context |-> <<"c", "o", "n", "t", "e", "x", "t">>]

PyText(runs) == [t |-> "str", runs |-> runs]

RECURSIVE RunsLen(_)
\* len() of a text
RunsLen(runs) == IF runs = <<>> THEN 0 ELSE Head(runs)[2] + RunsLen(Tail(runs))

\* v.strip(): only a str has the method.
text_strip(v) ==
    LET RECURSIVE LStripRuns(_)
        LStripRuns(runs) ==
            IF runs # <<>> /\ Head(runs)[1] \in WS THEN LStripRuns(Tail(runs)) ELSE runs
        RECURSIVE RStripRuns(_)
        RStripRuns(runs) ==
            IF runs # <<>> /\ runs[Len(runs)][1] \in WS
            THEN RStripRuns(SubSeq(runs, 1, Len(runs) - 1))
            ELSE runs
    IN IF v.t = "str" THEN [ok |-> TRUE, v |-> PyText(RStripRuns(LStripRuns(v.runs)))]
       ELSE [ok |-> FALSE, exc |-> Raise("AttributeError", "strip")]

\* jsonify(...), status
HttpReply(status, body) == [status |-> status, body |-> body]

ErrorEntry(id, error) == [id |-> id, error |-> error]

\* SentimentAnalysisRequest(text=..., language=..., context=..., channel_type='web')
AnalysisRequest(text, data) ==
    [text |-> text,
     language |-> DictGet(data.items, APPK.language, PyStr(LANG.auto)),
     context |-> DictGet(data.items, APPK.context, PyNone)]

\* What gemini_client.analyze_sentiment may do for the caller: return a
\* result, raise GeminiAPIError, or raise another exception.
ClientOutcomes ==
    {Return(SentimentResponse(4, PyStr(L.Positive), DefaultConfidence, PyStr(TXT.completed),
                              PyStr(LANG.en), 1)),
     Raised(InvalidScoreError(MaxScore)),
     Raised(Raise("TypeError", "argument is not iterable"))}

\* Lines 100-108 and 214-222: the fields of a result.
ResultFields(r) ==
    [sentiment_score |-> r.sentiment_score, sentiment_label |-> r.sentiment_label,
     confidence |-> r.confidence, explanation |-> r.explanation,
     language_detected |-> r.language_detected]

(***************************************************************************)
(* /api/analyze, lines 61-125.  [reply, called, request]: the reply, and   *)
(* whether and with what the client was called.                            *)
(***************************************************************************)
api_analyze(req, out) ==
    LET NoCall(reply) == [reply |-> reply, called |-> FALSE]
        InternalError(exc) ==
            NoCall(HttpReply(500, [error |-> "Internal server error", details |-> exc]))
    IN IF ~req.is_json THEN NoCall(HttpReply(400, [error |-> "Content-Type must be application/json"]))
    ELSE IF ~Truthy(req.data) THEN NoCall(HttpReply(400, [error |-> "Request body is required"]))
    ELSE LET has == py_in(APPK.text, req.data)
         IN IF ~has.ok THEN InternalError(has.exc)
            ELSE IF ~has.v THEN NoCall(HttpReply(400, [error |-> "text field is required"]))
            ELSE IF req.data.t # "dict" THEN InternalError(NotSubscriptable)
            ELSE LET text == text_strip(DictLookup(req.data.items, APPK.text))
                 IN IF ~text.ok THEN InternalError(text.exc)
                    ELSE IF text.v.runs = <<>>
                         THEN NoCall(HttpReply(400, [error |-> "text cannot be empty"]))
                    ELSE IF RunsLen(text.v.runs) > TextLimit
                         THEN NoCall(HttpReply(400,
                                  [error |-> "text cannot exceed 10,000 characters"]))
                    ELSE [called |-> TRUE,
                          request |-> AnalysisRequest(text.v, req.data),
                          reply |->
                             IF out.kind = "return" THEN HttpReply(200, ResultFields(out.r))
                             ELSE IF out.e.exc = "GeminiAPIError"
                                  THEN HttpReply(500, [error |-> "Sentiment analysis failed",
                                                       details |-> out.e])
                                  ELSE HttpReply(500, [error |-> "Internal server error",
                                                       details |-> out.e])]

(***************************************************************************)
(* /api/batch, lines 127-263.                                              *)
(***************************************************************************)
\* batch_checks without lines 149-150: an empty array goes to the loop.
BatchChecksAllowingEmpty(req) ==
    IF ~req.is_json
    THEN [ok |-> FALSE, reply |-> HttpReply(400, [error |-> "Content-Type must be application/json"])]
    ELSE IF ~Truthy(req.data)
    THEN [ok |-> FALSE, reply |-> HttpReply(400, [error |-> "Request body is required"])]
    ELSE LET has == py_in(APPK.texts, req.data)
             failure(exc) == [ok |-> FALSE,
                              reply |-> HttpReply(500, [error |-> "Batch analysis failed",
                                                        details |-> exc])]
         IN IF ~has.ok THEN failure(has.exc)
            ELSE IF ~has.v
            THEN [ok |-> FALSE, reply |-> HttpReply(400, [error |-> "texts field is required"])]
            ELSE IF req.data.t # "dict" THEN failure(NotSubscriptable)
            ELSE LET texts == DictLookup(req.data.items, APPK.texts)
                 IN IF texts.t # "list"
                    THEN [ok |-> FALSE,
                          reply |-> HttpReply(400, [error |-> "texts must be an array"])]
                    ELSE IF Len(texts.elems) > BatchLimit
                    THEN [ok |-> FALSE,
                          reply |-> HttpReply(400,
                                       [error |-> "Cannot process more than 50 texts at once"])]
                    ELSE [ok |-> TRUE, texts |-> texts.elems]

\* Lines 132-153: the checks of the batch as a whole.
batch_checks(req) ==
    IF ~req.is_json
    THEN [ok |-> FALSE, reply |-> HttpReply(400, [error |-> "Content-Type must be application/json"])]
    ELSE IF ~Truthy(req.data)
    THEN [ok |-> FALSE, reply |-> HttpReply(400, [error |-> "Request body is required"])]
    ELSE LET has == py_in(APPK.texts, req.data)
             failure(exc) == [ok |-> FALSE,
                              reply |-> HttpReply(500, [error |-> "Batch analysis failed",
                                                        details |-> exc])]
         IN IF ~has.ok THEN failure(has.exc)
            ELSE IF ~has.v
            THEN [ok |-> FALSE, reply |-> HttpReply(400, [error |-> "texts field is required"])]
            ELSE IF req.data.t # "dict" THEN failure(NotSubscriptable)
            ELSE LET texts == DictLookup(req.data.items, APPK.texts)
                 IN IF texts.t # "list"
                    THEN [ok |-> FALSE,
                          reply |-> HttpReply(400, [error |-> "texts must be an array"])]
                    ELSE IF Len(texts.elems) = 0
                    THEN [ok |-> FALSE,
                          reply |-> HttpReply(400, [error |-> "texts array cannot be empty"])]
                    ELSE IF Len(texts.elems) > BatchLimit
                    THEN [ok |-> FALSE,
                          reply |-> HttpReply(400,
                                       [error |-> "Cannot process more than 50 texts at once"])]
                    ELSE [ok |-> TRUE, texts |-> texts.elems]

\* check_item without the test of lines 194-200.
CheckItemWithoutLimit(text_item, n) ==
    IF text_item.t \notin {"str", "dict"}
    THEN [ok |-> FALSE, entry |-> ErrorEntry(PyStr(NatText(n)), "Invalid text item format")]
    ELSE LET text_data == IF text_item.t = "str"
                          THEN PyDict(<< <<APPK.text, text_item>>, <<APPK.id, PyStr(NatText(n))>> >>)
                          ELSE text_item
             id == DictGet(text_data.items, APPK.id, PyStr(NatText(n)))
         IN IF ~DictHas(text_data.items, APPK.text)
            THEN [ok |-> FALSE, entry |-> ErrorEntry(id, "text field is required")]
            ELSE LET text == text_strip(DictLookup(text_data.items, APPK.text))
                 IN IF ~text.ok
                    THEN [ok |-> FALSE,
                          entry |-> [id |-> id, error |-> "Unexpected error", details |-> text.exc]]
                    ELSE IF text.v.runs = <<>>
                    THEN [ok |-> FALSE, entry |-> ErrorEntry(id, "text cannot be empty")]
                    ELSE [ok |-> TRUE, id |-> id,
                          request |-> AnalysisRequest(text.v, text_data)]

\* Lines 164-208: one item up to the analysis request.  [ok, id, request] or
\* [ok, entry]: the error entry of an item that is not analysed.
check_item(text_item, n) ==
    IF text_item.t \notin {"str", "dict"}
    THEN [ok |-> FALSE, entry |-> ErrorEntry(PyStr(NatText(n)), "Invalid text item format")]
    ELSE LET text_data == IF text_item.t = "str"
                          THEN PyDict(<< <<APPK.text, text_item>>, <<APPK.id, PyStr(NatText(n))>> >>)
                          ELSE text_item
             id == DictGet(text_data.items, APPK.id, PyStr(NatText(n)))
         IN IF ~DictHas(text_data.items, APPK.text)
            THEN [ok |-> FALSE, entry |-> ErrorEntry(id, "text field is required")]
            ELSE LET text == text_strip(DictLookup(text_data.items, APPK.text))
                 IN IF ~text.ok
                    THEN [ok |-> FALSE,
                          entry |-> [id |-> id, error |-> "Unexpected error", details |-> text.exc]]
                    ELSE IF text.v.runs = <<>>
                    THEN [ok |-> FALSE, entry |-> ErrorEntry(id, "text cannot be empty")]
                    ELSE IF RunsLen(text.v.runs) > TextLimit
                    THEN [ok |-> FALSE,
                          entry |-> ErrorEntry(id, "text cannot exceed 10,000 characters")]
                    ELSE [ok |-> TRUE, id |-> id,
                          request |-> AnalysisRequest(text.v, text_data)]

\* batch_item leaving the loop when the analysis of an item raises.
BatchItemBreaking(st, text_item, out) ==
    LET chk == check_item(text_item, st.i)
    IN IF ~chk.ok
       THEN [st EXCEPT !.results = Append(@, chk.entry), !.failed = @ + 1, !.i = @ + 1]
       ELSE LET called == [st EXCEPT !.calls = Append(@, [item |-> st.i,
                                                           request |-> chk.request])]
            IN IF out.kind = "return"
               THEN [called EXCEPT
                        !.results = Append(@, [id |-> chk.id,
                                                processing_time_ms |-> out.r.processing_time * 1000]
                                               @@ ResultFields(out.r)),
                        !.successful = @ + 1,
                        !.i = @ + 1]
               ELSE [called EXCEPT
                        !.results = Append(@, [id |-> chk.id,
                                                error |-> IF out.e.exc = "GeminiAPIError"
                                                          THEN "Analysis failed"
                                                          ELSE "Unexpected error",
                                                details |-> out.e]),
                        !.failed = @ + 1,
                        !.i = @ + BatchLimit + 1]

\* Lines 162-239: one iteration of the loop on the loop's state
\* [i, results, successful, failed, calls]; out is what the client does if called.
batch_item(st, text_item, out) ==
    LET chk == check_item(text_item, st.i)
    IN IF ~chk.ok
       THEN [st EXCEPT !.results = Append(@, chk.entry), !.failed = @ + 1, !.i = @ + 1]
       ELSE LET called == [st EXCEPT !.calls = Append(@, [item |-> st.i,
                                                           request |-> chk.request]),
                                     !.i = @ + 1]
            IN IF out.kind = "return"
               THEN [called EXCEPT
                        !.results = Append(@, [id |-> chk.id,
                                                processing_time_ms |-> out.r.processing_time * 1000]
                                               @@ ResultFields(out.r)),
                        !.successful = @ + 1]
               ELSE [called EXCEPT
                        !.results = Append(@, [id |-> chk.id,
                                                error |-> IF out.e.exc = "GeminiAPIError"
                                                          THEN "Analysis failed"
                                                          ELSE "Unexpected error",
                                                details |-> out.e]),
                        !.failed = @ + 1]

\* The requests that arrive: single analyses, batches of up to MaxBatch items,
\* bodies that do not pass the checks of the batch, and requests that are not
\* JSON.  The texts stand around the limits: empty, blank, of TextLimit and
\* TextLimit + 1 characters, and padded with white space.
HttpRequests ==
    LET hi == PyText(<< <<"h", 1>>, <<"i", 1>> >>)
        ItemTexts ==
            {hi,
             PyText(<<>>),
             PyText(<< <<" ", 2>>, <<NL, 1>> >>),
             PyText(<< <<"a", TextLimit>> >>),
             PyText(<< <<"a", TextLimit + 1>> >>),
             PyText(<< <<" ", 1>>, <<"a", TextLimit>>, <<NL, 1>> >>),
             PyText(<< <<" ", 1>>, <<"a", TextLimit>>, <<" ", 1>>, <<"b", 1>> >>)}
        Items ==
            ItemTexts
            \cup {PyDict(<< <<APPK.text, hi>>, <<APPK.id, PyStr(<<"x">>)>>,
                            <<APPK.language, PyStr(LANG.ja)>> >>),
                  PyDict(<< <<APPK.text, PyText(<< <<"a", TextLimit + 1>> >>)>>,
                            <<APPK.id, PyStr(<<"x">>)>> >>),
                  PyDict(<< <<APPK.text, PyText(<< <<" ", 1>> >>)>> >>),
                  PyDict(<< <<APPK.id, PyStr(<<"x">>)>> >>),
                  PyDict(<< <<APPK.text, PyInt(5)>> >>),
                  PyInt(7),
                  PyNone}
        Batches == UNION {[1..n -> Items] : n \in 1..MaxBatch}
                   \cup {[k \in 1..BatchLimit |-> PyInt(7)]}
        BadBatchBodies ==
            {PyNone, PyDict(<<>>), PyInt(5),
             PyList(<<PyStr(APPK.texts)>>),
             PyDict(<< <<APPK.text, hi>> >>),
             PyDict(<< <<APPK.texts, hi>> >>),
             PyDict(<< <<APPK.texts, PyList(<<>>)>> >>),
             PyDict(<< <<APPK.texts, PyList([k \in 1..(BatchLimit + 1) |-> hi])>> >>)}
        SingleBodies ==
            {PyDict(<< <<APPK.text, t>> >>) : t \in ItemTexts \cup {PyInt(5), PyNone}}
            \cup {PyDict(<< <<APPK.text, hi>>, <<APPK.language, PyStr(LANG.ja)>>,
                            <<APPK.context, PyStr(<<"c", "h", "a", "t">>)>> >>),
                  PyNone, PyDict(<<>>), PyInt(5), PyList(<<PyStr(APPK.text)>>),
                  PyDict(<< <<APPK.id, PyStr(<<"x">>)>> >>)}
    IN {[endpoint |-> "analyze", is_json |-> TRUE, data |-> d] : d \in SingleBodies}
       \cup {[endpoint |-> "batch", is_json |-> TRUE, data |-> d] : d \in BadBatchBodies}
       \cup {[endpoint |-> "batch", is_json |-> TRUE,
              data |-> PyDict(<< <<APPK.texts, PyList(b)>> >>)] : b \in Batches}
       \cup {[endpoint |-> e, is_json |-> FALSE, data |-> PyNone] : e \in {"analyze", "batch"}}

\* The client of the front-end, created at line 41, is not in a call.
ClientIdle ==
    /\ config \in Configs(1) \ Configs(0)
    /\ request = None
    /\ pc = "idle"
    /\ prompt = None
    /\ attempt = 0
    /\ response = None
    /\ events = <<>>
    /\ only_transport = TRUE
    /\ response_text = None
    /\ parsed = None
    /\ outcome = None

\* An HTTP request has arrived at one of the two endpoints.
InitApp ==
    /\ ClientIdle
    /\ PairIdle
    /\ launch = None
    /\ http_request \in HttpRequests
    /\ app_pc = "recv"
    /\ batch_i = 0
    /\ results = <<>>
    /\ successful = 0
    /\ failed = 0
    /\ client_calls = <<>>
    /\ http_response = None

\* Lines 61-125.
ApiAnalyze ==
    /\ app_pc = "recv"
    /\ http_request.endpoint = "analyze"
    /\ \E out \in ClientOutcomes :
          LET done == api_analyze(http_request, out)
          IN /\ http_response' = done.reply
             /\ client_calls' = IF done.called
                                THEN Append(client_calls, [item |-> 0, request |-> done.request])
                                ELSE client_calls
    /\ app_pc' = "sent"
    /\ UNCHANGED <<http_request, batch_i, results, successful, failed>>
    /\ UNCHANGED <<client_vars, pair_vars, launch>>

\* Lines 132-160, and 258-263 when a check raises.
BatchValidate ==
    /\ app_pc = "recv"
    /\ http_request.endpoint = "batch"
    /\ LET chk == batch_checks(http_request)
       IN IF chk.ok
          THEN /\ app_pc' = "loop"
               /\ UNCHANGED http_response
          ELSE /\ app_pc' = "sent"
               /\ http_response' = chk.reply
    /\ batch_i' = 0
    /\ results' = <<>>
    /\ successful' = 0
    /\ failed' = 0
    /\ UNCHANGED <<http_request, client_calls>>
    /\ UNCHANGED <<client_vars, pair_vars, launch>>

\* texts = data['texts']
BatchTexts == DictLookup(http_request.data.items, APPK.texts).elems

\* Lines 162-239: the iteration of item i (enumerate counts from 0).
BatchItem ==
    /\ app_pc = "loop"
    /\ batch_i < Len(BatchTexts)
    /\ \E out \in ClientOutcomes :
          LET st == batch_item([i |-> batch_i, results |-> results, successful |-> successful,
                                failed |-> failed, calls |-> client_calls],
                               BatchTexts[batch_i + 1], out)
          IN /\ batch_i' = st.i
             /\ results' = st.results
             /\ successful' = st.successful
             /\ failed' = st.failed
             /\ client_calls' = st.calls
    /\ UNCHANGED <<http_request, app_pc, http_response>>
    /\ UNCHANGED <<client_vars, pair_vars, launch>>

\* Lines 241-256.
BatchRespond ==
    /\ app_pc = "loop"
    /\ ~(batch_i < Len(BatchTexts))
    /\ http_response' = HttpReply(200, [results |-> results,
                                        summary |-> [total |-> Len(BatchTexts),
                                                     successful |-> successful,
                                                     failed |-> failed]])
    /\ app_pc' = "sent"
    /\ UNCHANGED <<http_request, batch_i, results, successful, failed, client_calls>>
    /\ UNCHANGED <<client_vars, pair_vars, launch>>

AppStep == ApiAnalyze \/ BatchValidate \/ BatchItem \/ BatchRespond

SpecApp == InitApp /\ [][AppStep]_vars

(***************************************************************************)
(* Two analysis calls on one GeminiClient.  self is what the calls share:  *)
(* self.config, which no method assigns, and self.session, through which  *)
(* both POST.  loc is the frame of one call: the locals of                 *)
(* analyze_sentiment and _make_api_request, with the inputs the call has   *)
(* consumed (the replies to its POSTs and its clock reading) and the       *)
(* number of steps it has taken.                                           *)
(***************************************************************************)
\* The loop variable read from the client, as the number of POSTs sent
\* through the session, instead of from the frame of the call.
LoopVarOnClient(self, loc) == Len(self.session)

\* for attempt in range(self.config.max_retries): attempt is a local of the frame.
LoopVar(self, loc) == loc.attempt

\* The frame of a call of analyze_sentiment(req) that has not run yet.
NewCall(req) ==
    [pc |-> "start", request |-> req, prompt |-> None, attempt |-> 0, response |-> None,
     events |-> <<>>, response_text |-> None, parsed |-> None, outcome |-> None,
     inputs |-> <<>>, steps |-> 0]

\* Lines 67 and 76-78: the frame once _parse_api_response has returned or raised out.
ParsedAs(loc, out) ==
    IF out.kind = "raise"
    THEN [loc EXCEPT !.parsed = out, !.outcome = Raised(out.e), !.pc = "done"]
    ELSE [loc EXCEPT !.parsed = out, !.pc = "time"]

\* One step of a call: lines 55-61 ("start"), 165-170 and 238 ("loop"),
\* 172-177 ("post", inp is what the upstream does), 179-236 ("classify"),
\* 67 and 76-78 ("parse"), 70-74 ("time", inp is the time not slept).
call_step(self, loc, inp) ==
    LET n == LoopVar(self, loc)
        max_retries == self.config.max_retries
        body == AttemptBody(loc.response, n, max_retries)
        caught(e) == IF n = max_retries - 1
                     THEN [loc EXCEPT !.outcome = Raised(FailedAfter(max_retries, e)),
                                      !.pc = "done"]
                     ELSE [loc EXCEPT !.attempt = n + 1, !.pc = "loop"]
        post == PostEvent(loc.prompt, self.config.timeout)
        after ==
            CASE loc.pc = "start" ->
                   [loc EXCEPT !.prompt = _create_sentiment_prompt(loc.request), !.pc = "loop"]
              [] loc.pc = "loop" ->
                   IF n < max_retries
                   THEN [loc EXCEPT !.events = IF n > 0
                                               THEN Append(@, SleepEvent(Delay(n), "backoff"))
                                               ELSE @,
                                    !.pc = "post"]
                   ELSE [loc EXCEPT !.outcome = Raised(MaxRetriesExceeded), !.pc = "done"]
              [] loc.pc = "post" ->
                   [loc EXCEPT !.response = inp, !.events = Append(@, post),
                               !.inputs = Append(@, inp), !.pc = "classify"]
              [] loc.pc = "classify" ->
                   IF body.kind = "rate_wait"
                   THEN [loc EXCEPT !.events = Append(@, SleepEvent(body.retry_after,
                                                                    "retry_after")),
                                    !.attempt = n + 1, !.pc = "loop"]
                   ELSE IF body.kind \in {"transport", "api_error"} THEN caught(body.e)
                   ELSE IF body.kind = "escape"
                   THEN [loc EXCEPT !.outcome = Raised(body.e), !.pc = "done"]
                   ELSE [loc EXCEPT !.response_text = body.text, !.pc = "parse"]
              [] loc.pc = "parse" ->
                   ParsedAs(loc, IF loc.response_text.t = "str"
                                 THEN _parse_api_response(loc.response_text.s,
                                                          loc.request.language)
                                 ELSE [kind |-> "raise", stages |-> <<"clean">>,
                                       e |-> Raise("TypeError", "expected string")])
              [] loc.pc = "time" ->
                   [loc EXCEPT !.outcome = Return([loc.parsed.r EXCEPT
                                                     !.processing_time = Slept(loc.events) + inp]),
                               !.inputs = Append(@, inp), !.pc = "done"]
    IN [self |-> IF loc.pc = "post" THEN [self EXCEPT !.session = Append(@, post)] ELSE self,
        loc |-> [after EXCEPT !.steps = @ + 1]]

\* What session.post does for the two calls.
PairReplies ==
    {PostRaises("Timeout"),
     HttpResponse(429, << <<TXT.RetryAfter, PyStr(<<"5">>)>> >>, NotJsonBody),
     HttpResponse(500, <<>>, NotJsonBody),
     HttpResponse(200, <<>>, JsonBody(EnvelopeOf(PyStr(Obj(<<ScorePair(4)>>)))))}

\* Two threads have called analyze_sentiment on the client.
InitPair ==
    /\ AppIdle
    /\ launch = None
    /\ config \in Configs(MaxRetries)
    /\ request = None
    /\ pc = "idle"
    /\ prompt = None
    /\ attempt = 0
    /\ response = None
    /\ events = <<>>
    /\ only_transport = TRUE
    /\ response_text = None
    /\ parsed = None
    /\ outcome = None
    /\ \E r1, r2 \in {q \in Requests : q.context = PyNone} :
          /\ r1.language = LANG.auto
          /\ r2.language \in {LANG.auto, LANG.ja}
          /\ calls = <<NewCall(r1), NewCall(r2)>>
    /\ session = <<>>

\* The step st of call c leaves the frame of c and the session as st has them.
Put(c, st) ==
    /\ calls' = [calls EXCEPT ![c] = st.loc]
    /\ session' = st.self.session
    /\ UNCHANGED <<client_vars, app_vars, launch>>

\* Call c takes its next step, with what the step reads from outside.
Take(c, inp) == Put(c, call_step([config |-> config, session |-> session], calls[c], inp))

\* A step of call c that reads nothing from outside.
CallAdvance(c) ==
    /\ calls[c].pc \in {"start", "loop", "classify", "parse"}
    /\ Take(c, None)

\* Lines 172-177 in call c.
CallPost(c) ==
    /\ calls[c].pc = "post"
    /\ \E r \in PairReplies : Take(c, r)

\* Lines 70-74 in call c.
CallTime(c) ==
    /\ calls[c].pc = "time"
    /\ \E extra \in 0..MaxExtraTime : Take(c, extra)

PairStep == \E c \in DOMAIN calls : CallAdvance(c) \/ CallPost(c) \/ CallTime(c)

SpecPair == InitPair /\ [][PairStep]_vars

(***************************************************************************)
(* The launcher (run_standalone.py) and Config.validate (config.py).       *)
(* The Config is what the environment gave: _load_gemini_config refuses an *)
(* empty GEMINI_API_KEY, the integers are whatever int() read.             *)
(***************************************************************************)
\* validate with the retry budget among the errors.
ValidateRejectingBudget(self) ==
    LET errors ==
            (IF self.gemini.api_key = <<>> THEN <<"GEMINI_API_KEY is required">> ELSE <<>>)
            \o (IF self.gemini.max_retries < 1 \/ self.gemini.max_retries > 10
                THEN <<"GEMINI_MAX_RETRIES should be between 1 and 10">> ELSE <<>>)
            \o (IF self.server.port < 1 \/ self.server.port > 65535
                THEN <<"PORT must be between 1 and 65535">> ELSE <<>>)
            \o (IF self.features.default_retention_days < 1
                THEN <<"DEFAULT_RETENTION_DAYS must be at least 1">> ELSE <<>>)
            \o (IF self.features.default_retention_days > self.features.max_retention_days
                THEN <<"DEFAULT_RETENTION_DAYS cannot exceed MAX_RETENTION_DAYS">> ELSE <<>>)
        warnings ==
            (IF self.gemini.timeout < 1 \/ self.gemini.timeout > 300
             THEN <<"GEMINI_TIMEOUT should be between 1 and 300 seconds">> ELSE <<>>)
    IN [valid |-> Len(errors) = 0, errors |-> errors, warnings |-> warnings]

\* Config.validate, lines 190-220 of config.py.
validate(self) ==
    LET errors ==
            (IF self.gemini.api_key = <<>> THEN <<"GEMINI_API_KEY is required">> ELSE <<>>)
            \o (IF self.server.port < 1 \/ self.server.port > 65535
                THEN <<"PORT must be between 1 and 65535">> ELSE <<>>)
            \o (IF self.features.default_retention_days < 1
                THEN <<"DEFAULT_RETENTION_DAYS must be at least 1">> ELSE <<>>)
            \o (IF self.features.default_retention_days > self.features.max_retention_days
                THEN <<"DEFAULT_RETENTION_DAYS cannot exceed MAX_RETENTION_DAYS">> ELSE <<>>)
        warnings ==
            (IF self.gemini.timeout < 1 \/ self.gemini.timeout > 300
             THEN <<"GEMINI_TIMEOUT should be between 1 and 300 seconds">> ELSE <<>>)
            \o (IF self.gemini.max_retries < 1 \/ self.gemini.max_retries > 10
                THEN <<"GEMINI_MAX_RETRIES should be between 1 and 10">> ELSE <<>>)
    IN [valid |-> Len(errors) = 0, errors |-> errors, warnings |-> warnings]

\* run_standalone.py is started with a Config loaded from the environment.
InitLaunch ==
    /\ ClientIdle
    /\ AppIdle
    /\ PairIdle
    /\ \E t \in {0, 1, DefaultTimeout, 300, 301}, m \in {-1, 0, 1, 3, 10, 11},
          port \in {0, 1, 3000, 65535, 65536}, days \in {0, 1, 365, 366} :
          launch = [pc |-> "import",
                    config |-> [gemini |-> [api_key |-> <<"k">>, timeout |-> t, max_retries |-> m],
                                server |-> [port |-> port],
                                features |-> [default_retention_days |-> days,
                                              max_retention_days |-> 365]],
                    validation |-> None,
                    banner |-> <<>>,
                    client |-> None]

\* Lines 16-20 of run_standalone.py: validation = config.validate()
Validate ==
    /\ launch.pc = "import"
    /\ launch' = [launch EXCEPT !.pc = "main", !.validation = validate(launch.config)]
    /\ UNCHANGED <<client_vars, app_vars, pair_vars>>

\* main(), lines 125-160, once the dependencies and the .env file are found:
\* print_startup_banner (lines 89-102 are its end), then sys.exit(1), or the
\* return of --check-only, or start_service, which creates the application
\* and with it GeminiClient(config.gemini) (standalone_app.py line 41).
Main ==
    /\ launch.pc = "main"
    /\ IF ~launch.validation.valid
       THEN launch' = [launch EXCEPT !.pc = "exit",
                                     !.banner = <<"Configuration has errors:">>
                                                \o launch.validation.errors]
       ELSE \E check_only \in BOOLEAN :
               launch' = [launch EXCEPT
                            !.pc = IF check_only THEN "checked" ELSE "serving",
                            !.banner = <<"Configuration is valid!">>
                                       \o (IF launch.validation.warnings # <<>>
                                           THEN <<"Configuration warnings:">>
                                                \o launch.validation.warnings
                                           ELSE <<>>),
                            !.client = IF check_only THEN None ELSE launch.config.gemini]
    /\ UNCHANGED <<client_vars, app_vars, pair_vars>>

SpecLaunch == InitLaunch /\ [][Validate \/ Main]_vars

(***************************************************************************)
(* What the claims speak of.                                               *)
(***************************************************************************)
\* The number of POSTs in evs.
Posts(evs) == Cardinality({i \in DOMAIN evs : evs[i].e = "post"})

IsSleep(ev) == ev.e = "sleep"

\* The durations slept in evs, in order.
Sleeps(evs) == LET s == SelectSeq(evs, IsSleep) IN [i \in DOMAIN s |-> s[i].d]

\* The first JSON value a stage before the fallback obtains from a reply, and
\* the stage that obtains it ("none": no stage parses anything).
ObtainedBy(text) ==
    LET cleaned == _clean_response_text(text)
        direct == json_loads(cleaned)
        m == re_search_object(cleaned)
        extracted == IF m.found THEN json_loads(m.group) ELSE [ok |-> FALSE]
        repaired == IF _is_truncated_json(cleaned)
                    THEN json_loads(_fix_truncated_json(cleaned))
                    ELSE [ok |-> FALSE]
    IN IF direct.ok THEN [stage |-> "direct", v |-> direct.v]
       ELSE IF extracted.ok THEN [stage |-> "extract", v |-> extracted.v]
       ELSE IF repaired.ok THEN [stage |-> "repair", v |-> repaired.v]
       ELSE [stage |-> "none"]

Last(s) == s[Len(s)]

Decoded == parsed # None

(***************************************************************************)
(* C1.  When every attempt of a send ends in a transport failure, exactly  *)
(* N = max_retries POSTs are issued, the pause before the attempt of index *)
(* k >= 1 is min(2^k, 60) seconds, nothing is slept after the N-th         *)
(* attempt, and the call raises the error that carries N and the cause.    *)
(***************************************************************************)
C1_AllTransportFailures ==
    (pc = "done" /\ only_transport /\ config.max_retries >= 1) =>
        LET N == config.max_retries
        IN /\ Posts(events) = N
           /\ Len(events) = 2 * N - 1
           /\ \A k \in 0..(N - 1) : events[2 * k + 1].e = "post"
           /\ \A k \in 1..(N - 1) :
                 events[2 * k] = SleepEvent(IF 2 ^ k < 60 THEN 2 ^ k ELSE 60, "backoff")
           /\ (N = 3 => Sleeps(events) = <<2, 4>>)
           /\ outcome.kind = "raise"
           /\ outcome.e.exc = "GeminiAPIError"
           /\ outcome.e.msg = "API request failed after"
           /\ outcome.e.attempts = N
           /\ response.kind = "exception"
           /\ response.exc \in {"Timeout", "ConnectionError"}
           /\ outcome.e.cause.exc = response.exc

\* Seven transport failures in a row: the last pause is the capped one.
C1_Witness ==
    /\ pc = "done"
    /\ only_transport
    /\ config.max_retries = 7
    /\ Sleeps(events) = <<2, 4, 8, 16, 32, 60>>

(***************************************************************************)
(* C2.  As claimed: a 429 with Retry-After: 5 on the first attempt and a   *)
(* valid 200 on the second make the call succeed with a single 5-second    *)
(* sleep as its only wait.                                                 *)
(***************************************************************************)
C2_Case ==
    /\ pc = "parse"
    /\ attempt = 1
    /\ Len(events) >= 2
    /\ events[2] = SleepEvent(5, "retry_after")

C2_SingleFiveSecondWait == C2_Case => Sleeps(events) = <<5>>

(***************************************************************************)
(* C2, amended.  In that case the call succeeds after two waits: the       *)
(* 5-second Retry-After sleep, then the 2-second backoff pause before the  *)
(* second attempt.                                                         *)
(***************************************************************************)
C2_RetryAfterThenBackoff ==
    C2_Case => /\ Sleeps(events) = <<5, 2>>
               /\ events[3] = SleepEvent(2, "backoff")
               /\ Posts(events) = 2
               /\ response_text # None
               /\ outcome = None

C2_Witness == C2_Case /\ response.kind = "http" /\ response.status_code = 200

(***************************************************************************)
(* C3.  When a stage (direct parse, extraction, truncation repair) obtains *)
(* an object whose sentiment_score is an integer outside [1,5], decode     *)
(* raises the invalid-score error at that stage: no later stage runs, no   *)
(* verdict is returned, and the call ends without another POST.            *)
(***************************************************************************)
HasOutOfRangeScore(v) ==
    /\ v.t = "dict"
    /\ DictHas(v.items, K.sentiment_score)
    /\ DictLookup(v.items, K.sentiment_score).t = "int"
    /\ LET n == DictLookup(v.items, K.sentiment_score).i IN n < 1 \/ n > 5

C4_OnlyInvalidScoreFails ==
    (Decoded /\ parsed.kind = "raise") =>
        /\ parsed.e.exc = "GeminiAPIError"
        /\ parsed.e.msg = "Invalid sentiment_score"

(***************************************************************************)
(* C5.  For s in 1..5 the reply {"sentiment_score": s} decodes to score s, *)
(* the label of s in the table, confidence 0.95, the default explanation,  *)
(* language "en" and processing_time 0.                                    *)
(***************************************************************************)
TableLabel(s) == CASE s = 1 -> L.VeryNegative [] s = 2 -> L.Negative [] s = 3 -> L.Neutral
                   [] s = 4 -> L.Positive [] s = 5 -> L.VeryPositive

C5_ScoreOnlyDefaults ==
    \A s \in 1..5 :
        (Decoded /\ response_text = PyStr(Obj(<<ScorePair(s)>>))) =>
            /\ parsed.kind = "return"
            /\ parsed.r.sentiment_score = s
            /\ parsed.r.sentiment_label = PyStr(TableLabel(s))
            /\ parsed.r.confidence = [t |-> "float", m |-> 95, e |-> 2]
            /\ parsed.r.explanation = PyStr(TXT.completed)
            /\ parsed.r.language_detected = PyStr(LANG.en)
            /\ parsed.r.processing_time = 0

C5_Witness ==
    /\ Decoded
    /\ response_text = PyStr(Obj(<<ScorePair(5)>>))
    /\ parsed.kind = "return"
    /\ parsed.r.sentiment_label = PyStr(L.VeryPositive)

(***************************************************************************)
(* C6.  A reply cut right after a key's colon, the score key present, is   *)
(* repaired by appending " 0.95" and a closing brace; the reply            *)
(* {"sentiment_score": 4, "confidence":  so decodes to score 4, label      *)
(* Positive, confidence 0.95, and the fallback does not run.               *)
(***************************************************************************)
C6_Example == <<"{">> \o ScorePair(4) \o <<",", " ">> \o Quoted(K.confidence) \o <<":">>

CutAfterColon(t) ==
    /\ Len(t) >= 3
    /\ t[1] = "{"
    /\ t[Len(t) - 1] = QUOTE
    /\ t[Len(t)] = ":"
    /\ Contains(t, Quoted(K.sentiment_score))

C6_TruncatedAfterColonRepaired ==
    (Decoded /\ response_text.t = "str") =>
        /\ CutAfterColon(response_text.s) =>
              /\ _fix_truncated_json(response_text.s)
                    = response_text.s \o <<" ", "0", ".", "9", "5", "}">>
              /\ parsed.stages = <<"clean", "direct", "repair">>
        /\ response_text.s = C6_Example =>
              /\ parsed.kind = "return"
              /\ parsed.r.sentiment_score = 4
              /\ parsed.r.sentiment_label = PyStr(L.Positive)
              /\ parsed.r.confidence = [t |-> "float", m |-> 95, e |-> 2]

C6_Witness ==
    /\ Decoded
    /\ response_text = PyStr(C6_Example)
    /\ parsed.kind = "return"
    /\ Last(parsed.stages) = "repair"

(***************************************************************************)
(* C7.  As claimed: every non-JSON reply that contains the word "terrible" *)
(* and has no parseable object decodes through the fallback to score 1,    *)
(* Very Negative, confidence 0.7 and the fixed explanation.                *)
(***************************************************************************)
IsFallbackVerdict(out, score, label) ==
    /\ out.kind = "return"
    /\ Last(out.stages) = "fallback"
    /\ out.r.sentiment_score = score
    /\ out.r.sentiment_label = PyStr(label)
    /\ out.r.confidence = [t |-> "float", m |-> 7, e |-> 1]
    /\ out.r.explanation = PyStr(TXT.inferred)

TerribleWithoutObject ==
    /\ Decoded
    /\ response_text.t = "str"
    /\ Contains(Lower(response_text.s), W.terrible)
    /\ ObtainedBy(response_text.s).stage = "none"

C7_TerribleScoresOne ==
    TerribleWithoutObject => IsFallbackVerdict(parsed, 1, L.VeryNegative)

(***************************************************************************)
(* C7, amended.  Such a reply decodes to score 1 (Very Negative, 0.7, the  *)
(* fixed explanation) when its lower-cased text contains no keyword of a   *)
(* group that precedes the score-1 group: those of scores 5, 4, 3 and 2.   *)
(***************************************************************************)
EarlierKeywords ==
    {W.very_positive, W.excellent, W.amazing, W.fantastic,
     W.positive, W.good, W.great, W.happy,
     W.neutral, W.factual, W.informational,
     W.negative, W.bad, W.poor, W.disappointing}

C7_TerribleAloneScoresOne ==
    (TerribleWithoutObject
     /\ \A w \in EarlierKeywords : ~Contains(Lower(response_text.s), w))
        => IsFallbackVerdict(parsed, 1, L.VeryNegative)

\* An upper-case "TERRIBLE" next to another score-1 keyword.
C7_Witness ==
    /\ TerribleWithoutObject
    /\ ~Contains(response_text.s, W.terrible)
    /\ Contains(response_text.s, W.hate)
    /\ IsFallbackVerdict(parsed, 1, L.VeryNegative)

(***************************************************************************)
(* C8.  For every reply J free of fence marks (every JSON reply is), the   *)
(* decode of J between a leading ```json and a trailing ``` has the        *)
(* outcome of the decode of J: the same result fields, or the same error.  *)
(***************************************************************************)
SameOutcome(a, b) ==
    /\ a.kind = b.kind
    /\ a.kind = "return" => a.r = b.r
    /\ a.kind = "raise" => a.e = b.e

C8_FenceTransparent ==
    (Decoded /\ response_text.t = "str" /\ ~Contains(response_text.s, <<BT>>)) =>
        SameOutcome(_parse_api_response(Fenced(response_text.s), request.language), parsed)

\* A JSON reply that is not an object: the fenced decode raises as the bare one.
C8_Witness ==
    /\ Decoded
    /\ response_text = PyStr(<<"4">>)
    /\ parsed.kind = "raise"
    /\ _parse_api_response(Fenced(<<"4">>), request.language).kind = "raise"

(***************************************************************************)
(* C9.  On a 429 whose Retry-After is absent (60 seconds) or gives the     *)
(* seconds: with attempts left the client sleeps that long and goes to the *)
(* next attempt; on the last attempt it sleeps nothing and the call fails  *)
(* with the rate-limit error.                                              *)
(***************************************************************************)
\* The seconds of the header, -1 when the header is not a number.
RetryAfterSeconds(headers) ==
    IF headers = <<>> THEN 60
    ELSE IF headers = << <<TXT.RetryAfter, PyStr(<<"5">>)>> >> THEN 5
    ELSE -1

RateLimited ==
    /\ pc = "classify"
    /\ response.kind = "http"
    /\ response.status_code = 429
    /\ RetryAfterSeconds(response.headers) >= 0

RateLimitError ==
    [exc |-> "GeminiAPIError", msg |-> "API request failed after",
     attempts |-> config.max_retries,
     cause |-> [exc |-> "GeminiAPIError", msg |-> "Rate limit exceeded"]]

C9_RateLimitStep ==
    RateLimited =>
        IF attempt < config.max_retries - 1
        THEN /\ events' = Append(events, SleepEvent(RetryAfterSeconds(response.headers),
                                                    "retry_after"))
             /\ attempt' = attempt + 1
             /\ pc' = "loop"
             /\ outcome' = None
        ELSE /\ events' = events
             /\ pc' = "done"
             /\ outcome' = Raised(RateLimitError)

OtherStatus ==
    /\ pc = "classify"
    /\ response.kind = "http"
    /\ response.status_code \notin {200, 429}

StatusFailure ==
    [exc |-> "GeminiAPIError", msg |-> "API request failed after",
     attempts |-> config.max_retries,
     cause |-> [exc |-> "GeminiAPIError", msg |-> "API returned status",
                arg |-> response.status_code]]

C10_OtherStatusStep ==
    OtherStatus =>
        IF attempt < config.max_retries - 1
        THEN /\ attempt' = attempt + 1
             /\ pc' = "loop"
             /\ outcome' = None
             /\ events' = events
        ELSE /\ pc' = "done"
             /\ outcome' = Raised(StatusFailure)
             /\ events' = events

C10_OtherStatusRetried == [][C10_OtherStatusStep]_vars

\* A 500 with attempts left: the loop is at the next attempt, nothing has failed.
C10_Witness ==
    /\ pc = "loop"
    /\ attempt >= 1
    /\ attempt < config.max_retries
    /\ response.kind = "http"
    /\ response.status_code = 500
    /\ outcome = None

(***************************************************************************)
(* C11.  As claimed: a structural violation of a 200 envelope that is not  *)
(* the truncation case consumes one attempt; the next attempt is made when *)
(* one remains, and the call fails, with the violation wrapped, only on    *)
(* the last attempt.                                                       *)
(***************************************************************************)
TruncatedBody ==
    JsonBody(CandidateEnvelope(PyDict(<< <<ENV.content, PyDict(<<>>)>>,
                                         <<ENV.finishReason, PyStr(TXT.MAX_TOKENS)>> >>)))

\* The 200 bodies that are JSON, carry no reply text and are not the truncation.
MalformedBodies == BadBodies \ {NotJsonBody, TruncatedBody}

Malformed ==
    /\ pc = "classify"
    /\ response.kind = "http"
    /\ response.status_code = 200
    /\ response.body \in MalformedBodies

C11_MalformedStep ==
    Malformed =>
        IF attempt < config.max_retries - 1
        THEN /\ attempt' = attempt + 1
             /\ pc' = "loop"
             /\ outcome' = None
        ELSE /\ pc' = "done"
             /\ outcome'.kind = "raise"
             /\ outcome'.e.exc = "GeminiAPIError"
             /\ outcome'.e.msg = "API request failed after"
             /\ outcome'.e.attempts = config.max_retries

C11_MalformedRetried == [][C11_MalformedStep]_vars

(***************************************************************************)
(* C12.  As claimed: a 200 whose first candidate has finishReason          *)
(* MAX_TOKENS and no parts fails the call at once with the truncation      *)
(* error; it is not retried as a structural violation is.                  *)
(***************************************************************************)
Truncated ==
    /\ pc = "classify"
    /\ response.kind = "http"
    /\ response.status_code = 200
    /\ response.body = TruncatedBody

C12_TruncatedStep ==
    Truncated =>
        /\ pc' = "done"
        /\ attempt' = attempt
        /\ outcome'.kind = "raise"
        /\ outcome'.e.msg # "API request failed after"

C12_TruncatedFailsAtOnce == [][C12_TruncatedStep]_vars

(***************************************************************************)
(* C13.  When the last of N >= 1 attempts fails by a transport failure, a  *)
(* 429, another non-200 status or a malformed envelope, and so did every   *)
(* attempt before, the call raises the error of that last attempt, wrapped *)
(* with the attempt count N.                                               *)
(***************************************************************************)
MalformedMessage(body) ==
    CASE body \in {JsonBody(PyList(<<>>)), JsonBody(PyDict(<<>>)),
                   JsonBody(PyDict(<< <<ENV.candidates, PyList(<<>>)>> >>))}
            -> "No candidates in response"
      [] body = JsonBody(CandidateEnvelope(PyDict(<< <<ENV.finishReason, PyStr(TXT.STOP)>> >>)))
            -> "No content in response candidate"
      [] body = JsonBody(CandidateEnvelope(PyDict(<< <<ENV.content, PyDict(<<>>)>> >>)))
            -> "No parts in response content"
      [] body = JsonBody(CandidateEnvelope(PyDict(<< <<ENV.content,
                                                      PyDict(<< <<ENV.parts, PyList(<<>>)>> >>)>> >>)))
            -> "Empty parts array in response"
      [] body \in {JsonBody(EnvelopeOf(PyStr(<<>>))),
                   JsonBody(CandidateEnvelope(PyDict(<< <<ENV.content,
                       PyDict(<< <<ENV.parts, PyList(<<PyDict(<<>>)>>)>> >>)>> >>)))}
            -> "Empty response text"
      [] OTHER -> "none"

\* The error of an attempt that failed in one of the four ways, "none" otherwise.
ClassOf(resp) ==
    IF resp.kind = "exception"
    THEN IF resp.exc \in {"Timeout", "ConnectionError"}
         THEN [exc |-> resp.exc, msg |-> "request failed"]
         ELSE [exc |-> "none"]
    ELSE IF resp.status_code = 429
         THEN IF RetryAfterSeconds(resp.headers) >= 0
              THEN [exc |-> "GeminiAPIError", msg |-> "Rate limit exceeded"]
              ELSE [exc |-> "none"]
    ELSE IF resp.status_code # 200
         THEN [exc |-> "GeminiAPIError", msg |-> "API returned status",
               arg |-> resp.status_code]
    ELSE IF MalformedMessage(resp.body) # "none"
         THEN [exc |-> "GeminiAPIError", msg |-> MalformedMessage(resp.body)]
    ELSE [exc |-> "none"]

C14_RaisesOnlyWhenExhausted ==
    (pc = "done" /\ outcome.kind = "raise") => Posts(events) = config.max_retries

(***************************************************************************)
(* C15.  Every result decode returns, by whatever stage, has an integer    *)
(* score between 1 and 5.                                                  *)
(***************************************************************************)
C15_ScoreInBounds ==
    (Decoded /\ parsed.kind = "return") => parsed.r.sentiment_score \in 1..5

\* A fractional score in the reply: the result carries its integer part.
C15_Witness ==
    /\ Decoded
    /\ response_text = PyStr(Obj(<<Pair(K.sentiment_score, <<"4", ".", "7">>)>>))
    /\ parsed.kind = "return"
    /\ parsed.r.sentiment_score = 4

(***************************************************************************)
(* C16.  As claimed: every result decode returns has a confidence between  *)
(* 0.0 and 1.0, whatever confidence the reply carries.                     *)
(***************************************************************************)
C16_ConfidenceInBounds ==
    (Decoded /\ parsed.kind = "return") =>
        /\ parsed.r.confidence.t = "float"
        /\ 0 <= parsed.r.confidence.m
        /\ parsed.r.confidence.m <= Pow10(parsed.r.confidence.e)

(***************************************************************************)
(* C17.  As claimed: every result decode returns has one of the five       *)
(* labels, whatever sentiment_label the reply carries.                     *)
(***************************************************************************)
C17_LabelInEnumeration ==
    (Decoded /\ parsed.kind = "return") =>
        parsed.r.sentiment_label \in
            {PyStr(L.VeryNegative), PyStr(L.Negative), PyStr(L.Neutral),
             PyStr(L.Positive), PyStr(L.VeryPositive)}

(***************************************************************************)
(* C18.  For every batch that passes the checks of the batch, the items    *)
(* are handled one at a time in input order and none is skipped: each item *)
(* handled has its entry, at its place, an error entry when it fails       *)
(* (invalid item, analysis error, unexpected exception); the client is     *)
(* called in input order, once for each valid item; and the response       *)
(* carries an entry for every item.                                        *)
(***************************************************************************)
\* The number of characters of a text once trimmed.
TrimmedLen(runs) ==
    LET solid == {k \in DOMAIN runs : runs[k][1] \notin {" ", NL, "\t", "\r"}}
        RECURSIVE Sum(_, _)
        Sum(a, b) == IF a > b THEN 0 ELSE runs[a][2] + Sum(a + 1, b)
    IN IF solid = {} THEN 0
       ELSE Sum(CHOOSE a \in solid : \A k \in solid : a <= k,
                CHOOSE b \in solid : \A k \in solid : k <= b)

\* The text an item carries, None when it carries none.
ItemText(item) ==
    IF item.t = "str" THEN item
    ELSE IF item.t = "dict" /\ DictHas(item.items, APPK.text)
         THEN DictLookup(item.items, APPK.text)
         ELSE None

\* The item is one the client is to analyse.
Analysable(item) ==
    /\ ItemText(item) # None
    /\ ItemText(item).t = "str"
    /\ TrimmedLen(ItemText(item).runs) \in 1..10000

BatchAccepted ==
    /\ app_pc \in {"loop", "sent"}
    /\ http_request.endpoint = "batch"
    /\ http_request.is_json
    /\ http_request.data.t = "dict"
    /\ DictHas(http_request.data.items, APPK.texts)
    /\ DictLookup(http_request.data.items, APPK.texts).t = "list"
    /\ Len(DictLookup(http_request.data.items, APPK.texts).elems) \in 1..50

IsErrorEntry(entry) == "error" \in DOMAIN entry

CalledFor(k) == \E c \in DOMAIN client_calls : client_calls[c].item = k

C18_BatchNeverShortCircuits ==
    BatchAccepted =>
        LET texts == DictLookup(http_request.data.items, APPK.texts).elems
        IN /\ Len(results) = batch_i
           /\ successful + failed = batch_i
           /\ \A k \in 1..Len(results) :
                 /\ results[k].id = IF texts[k].t = "dict" /\ DictHas(texts[k].items, APPK.id)
                                    THEN DictLookup(texts[k].items, APPK.id)
                                    ELSE PyStr(NatText(k - 1))
                 /\ Analysable(texts[k]) <=> CalledFor(k - 1)
                 /\ ~Analysable(texts[k]) => IsErrorEntry(results[k])
           /\ \A a, b \in DOMAIN client_calls :
                 a < b => client_calls[a].item < client_calls[b].item
           /\ failed = Cardinality({k \in 1..Len(results) : IsErrorEntry(results[k])})
           /\ app_pc = "sent" =>
                 /\ batch_i = Len(texts)
                 /\ http_response.status = 200
                 /\ http_response.body.results = results

\* The analysis of the first item failed and the second item was analysed.
C18_Witness ==
    /\ BatchAccepted
    /\ app_pc = "sent"
    /\ Len(results) = 2
    /\ IsErrorEntry(results[1])
    /\ results[1].error = "Analysis failed"
    /\ ~IsErrorEntry(results[2])
    /\ Len(client_calls) = 2

(***************************************************************************)
(* C19.  In both endpoints the client is called only with a trimmed text   *)
(* of 1 to 10,000 characters; a text that is empty once trimmed, or longer *)
(* than 10,000 characters once trimmed, is answered with an error (status  *)
(* 400 in /api/analyze, an error entry in /api/batch) and the client is    *)
(* not called for it.                                                      *)
(***************************************************************************)
OutOfBounds(text) == text.t = "str" /\ TrimmedLen(text.runs) \notin 1..10000

C19_TextBoundsEnforced ==
    /\ \A c \in DOMAIN client_calls :
          LET text == client_calls[c].request.text
          IN /\ text.t = "str"
             /\ TrimmedLen(text.runs) \in 1..10000
             /\ text.runs[1][1] \notin {" ", NL, "\t", "\r"}
             /\ text.runs[Len(text.runs)][1] \notin {" ", NL, "\t", "\r"}
    /\ (/\ app_pc = "sent"
        /\ http_request.endpoint = "analyze"
        /\ http_request.is_json
        /\ http_request.data.t = "dict"
        /\ DictHas(http_request.data.items, APPK.text)
        /\ OutOfBounds(DictLookup(http_request.data.items, APPK.text)))
          => /\ http_response.status = 400
             /\ client_calls = <<>>
    /\ BatchAccepted =>
          LET texts == DictLookup(http_request.data.items, APPK.texts).elems
          IN \A k \in 1..Len(results) :
                (ItemText(texts[k]) # None /\ OutOfBounds(ItemText(texts[k])))
                   => IsErrorEntry(results[k]) /\ ~CalledFor(k - 1)

\* A batch: a text one character too long is refused, a text that is 10,000
\* characters once trimmed is passed, trimmed, to the client.
C19_Witness ==
    /\ BatchAccepted
    /\ app_pc = "sent"
    /\ Len(results) = 2
    /\ results[1] = [id |-> PyStr(<<"0">>), error |-> "text cannot exceed 10,000 characters"]
    /\ Len(client_calls) = 1
    /\ client_calls[1].item = 1
    /\ client_calls[1].request.text = [t |-> "str", runs |-> << <<"a", 10000>> >>]

RECURSIVE AloneAfter(_, _, _, _)
\* The frame of a call after n steps on a client no other call uses, the
\* upstream answering with inps in order ("starved": it POSTs more often than
\* inps has replies).
AloneAfter(self, loc, inps, n) ==
    IF n = 0 \/ loc.pc \in {"done", "starved"} THEN loc
    ELSE IF loc.pc \in {"post", "time"}
    THEN IF inps = <<>> THEN [loc EXCEPT !.pc = "starved"]
         ELSE LET st == call_step(self, loc, Head(inps))
              IN AloneAfter(st.self, st.loc, Tail(inps), n - 1)
    ELSE LET st == call_step(self, loc, None)
         IN AloneAfter(st.self, st.loc, inps, n - 1)

\* Call c as it would stand had it run alone against the replies it received.
Alone(c) ==
    AloneAfter([config |-> config, session |-> <<>>], NewCall(calls[c].request),
               calls[c].inputs, calls[c].steps)

\* C20: however two analysis calls on one client interleave, each call stands
\* at every moment where it would stand had it run alone against the replies
\* it received: the same attempt counter, the same sleeps, the same prompt and
\* the same outcome.
C20_CallsAreIsolated ==
    \A c \in DOMAIN calls :
        LET mine == calls[c]
            alone == Alone(c)
        IN /\ mine.pc = alone.pc
           /\ mine.attempt = alone.attempt
           /\ Sleeps(mine.events) = Sleeps(alone.events)
           /\ mine.prompt = alone.prompt
           /\ mine.outcome = alone.outcome

\* Two calls with different requests have finished after their POSTs
\* alternated on the session: one returned a result after a backoff, the
\* other failed after its last attempt.
C20_Witness ==
    /\ DOMAIN calls = 1..2
    /\ calls[1].pc = "done" /\ calls[2].pc = "done"
    /\ calls[1].prompt # calls[2].prompt
    /\ Len(session) = 4
    /\ session[1] # session[2] /\ session[2] # session[3] /\ session[3] # session[4]
    /\ calls[1].outcome.kind = "return" /\ calls[1].attempt = 1
    /\ Sleeps(calls[1].events) = <<2>>
    /\ calls[2].attempt = 1
    /\ calls[2].outcome = Raised(FailedAfter(2, Raise("Timeout", "request failed")))

(***************************************************************************)
(* C21.  A result is constructed with processing_time 0; afterwards only   *)
(* processing_time changes, once, after the decode has succeeded, and the  *)
(* other five fields reach the caller as constructed.  A call that fails   *)
(* in the transport or in the decode produces no result.                   *)
(***************************************************************************)
C21_Step ==
    /\ parsed' # parsed =>
          /\ parsed = None
          /\ parsed'.kind = "return" => parsed'.r.processing_time = 0 /\ outcome' = None
    /\ outcome' # outcome =>
          /\ outcome = None
          /\ IF outcome'.kind = "return"
             THEN /\ pc = "time"
                  /\ parsed' = parsed
                  /\ parsed.kind = "return"
                  /\ ResultFields(outcome'.r) = ResultFields(parsed.r)
             ELSE parsed' = None \/ parsed'.kind = "raise"

\* C21: the result is built with processing_time 0, stamped once after the
\* decode, returned with its other fields as built, and absent when the call fails.
C21_OnlyProcessingTimeChanges == [][C21_Step]_vars

\* A call that retried has returned a result with a confidence of its own
\* and a processing time that was stamped on it.
C21_Witness ==
    /\ pc = "done"
    /\ attempt > 0
    /\ outcome.kind = "return"
    /\ parsed.r.processing_time = 0
    /\ outcome.r.processing_time > 0
    /\ outcome.r.confidence # DefaultConfidence

(***************************************************************************)
(* C22.  The API credential is never written in full to a log message or   *)
(* to an error message the caller receives.                                *)
(***************************************************************************)
Credential == Last(api_url)

Mentions(text, secret) == \E k \in DOMAIN text : text[k] = secret

\* The call failed after its last attempt ended in an exception of session.post.
FailedInTransport ==
    /\ outcome.kind = "raise"
    /\ "cause" \in DOMAIN outcome.e
    /\ outcome.e.cause.exc \in {"Timeout", "ConnectionError"}

Member(v, k) == IF v.t = "dict" THEN DictGet(v.items, k, PyNone) ELSE PyNone

\* The first element of a JSON array v, PyNone when v is no array or is empty.
First(v) == IF v.t = "list" /\ v.elems # <<>> THEN v.elems[1] ELSE PyNone

\* candidates[0].content.parts[0].text of the body of resp.
PartText(resp) ==
    Member(First(Member(Member(First(Member(resp.body.json, ENV.candidates)), ENV.content),
                        ENV.parts)),
           ENV.text)

\* resp is an HTTP 200 whose body has the structure and a text that is not empty.
ValidReply(resp) ==
    /\ resp.kind # "exception"
    /\ resp.status_code = 200
    /\ resp.body.json_ok
    /\ PartText(resp).t = "str"
    /\ PartText(resp).s # <<>>

C23_Step ==
    /\ pc = "classify" /\ ValidReply(response) =>
          /\ response_text' = PartText(response)
          /\ pc' = "parse"
          /\ events' = events
    /\ response_text # None => events' = events /\ response_text' = response_text

\* C23: the step that follows a valid reply hands on its text unchanged and
\* ends the send; once the send has returned, the call POSTs and sleeps no more.
C23_ValidReplyEndsSend == [][C23_Step]_vars

\* After a failed attempt and a backoff, the send has returned a reply that
\* still carries its code fence, and the call has gone on to return a result.
C23_Witness ==
    /\ pc = "done"
    /\ attempt > 0
    /\ outcome.kind = "return"
    /\ response_text # None
    /\ StartsWith(response_text.s, TXT.fence_json)
    /\ response_text = PartText(response)
    /\ Posts(events) = attempt + 1

(***************************************************************************)
(* C24.  The decode stages run in the order clean, direct parse,           *)
(* extraction, truncation repair, fallback, and the first stage that       *)
(* parses a value builds the result.                                       *)
(***************************************************************************)
StageOrder == <<"clean", "direct", "extract", "repair", "fallback">>

Rank(stage) == CHOOSE k \in DOMAIN StageOrder : StageOrder[k] = stage

\* The stage stage ran in the decode.
Ran(stage) == \E k \in DOMAIN parsed.stages : parsed.stages[k] = stage

\* C24: the stages that ran are in the fixed order; the extraction ran only
\* after the direct parse failed, the repair only after the extraction found
\* nothing that parses, the fallback only when no stage parsed anything; and
\* the decode ends with the first stage that parses a value, which builds the outcome.
C24_StagesInOrder ==
    Decoded =>
        LET stages == parsed.stages
            cleaned == _clean_response_text(response_text.s)
            direct == json_loads(cleaned)
            m == re_search_object(cleaned)
            extracted == IF m.found THEN json_loads(m.group) ELSE [ok |-> FALSE]
            first == ObtainedBy(response_text.s)
        IN /\ SubSeq(stages, 1, 2) = <<"clean", "direct">>
           /\ \A k \in 1..(Len(stages) - 1) : Rank(stages[k]) < Rank(stages[k + 1])
           /\ Ran("extract") => ~direct.ok /\ m.found
           /\ Ran("repair") => ~direct.ok /\ ~extracted.ok /\ _is_truncated_json(cleaned)
           /\ Ran("fallback") <=> first.stage = "none"
           /\ first.stage # "none" =>
                 /\ Last(stages) = first.stage
                 /\ parsed = WithStages(_create_sentiment_response(first.v), stages)
           /\ first.stage = "none" =>
                 parsed = WithStages(Return(_infer_sentiment_from_text(cleaned, request.language)),
                                     stages)

\* A reply that is no JSON, in which the extraction matched an object that
\* does not parse and the repair did not help, was decoded by the fallback
\* after all five stages.
C24_Witness ==
    /\ Decoded
    /\ parsed.stages = StageOrder
    /\ parsed.kind = "return"

(***************************************************************************)
(* C25.  A cleaned reply that is not JSON but holds a brace-delimited      *)
(* object with the key sentiment_score is decoded as that object alone,    *)
(* also when a string value of the object contains a brace.                *)
(***************************************************************************)
\* The places <<i, j>> of the JSON objects with the key sentiment_score in t.
ObjectsIn(t) ==
    {ij \in {<<i, j>> : i \in {k \in DOMAIN t : t[k] = "{"}, j \in {k \in DOMAIN t : t[k] = "}"}} :
        /\ ij[1] < ij[2]
        /\ LET got == json_loads(SubSeq(t, ij[1], ij[2]))
           IN got.ok /\ got.v.t = "dict" /\ DictHas(got.v.items, K.sentiment_score)}

\* The smallest of them.
SmallestObjects(t) ==
    {SubSeq(t, ij[1], ij[2]) : ij \in {a \in ObjectsIn(t) :
                                          \A b \in ObjectsIn(t) : a[2] - a[1] <= b[2] - b[1]}}

\* The reply is not JSON and is an object with prose before it, after it or both.
ObjectInProse(t) ==
    /\ ~json_loads(t).ok
    /\ SmallestObjects(t) # {}

\* C25: the decode of an object in prose gives what the decode of the
\* smallest object with the key gives alone.
C25_ExtractionFromProse ==
    Decoded /\ ObjectInProse(_clean_response_text(response_text.s)) =>
        \A o \in SmallestObjects(_clean_response_text(response_text.s)) :
            SameOutcome(parsed, _parse_api_response(o, request.language))

(***************************************************************************)
(* C26.  The repair of a reply that looks truncated applies one rule, the  *)
(* first that fits: a text ending with ": gets 0.95, else a text ending    *)
(* with a colon and a space gets 0.95, else a trailing comma is dropped;   *)
(* then } is appended when missing.  A reply cut after a colon and a space *)
(* is completed with 0.95.                                                 *)
(***************************************************************************)
\* The rules as stated, on the text as it is.
RepairAsStated(t) ==
    LET t1 == IF EndsWith(t, <<QUOTE, ":">>) THEN t \o TXT.default_conf_sp
              ELSE IF EndsWith(t, <<":", " ">>) THEN t \o TXT.default_conf
              ELSE IF EndsWith(t, <<",">>) THEN SubSeq(t, 1, Len(t) - 1)
              ELSE t
    IN IF EndsWith(t1, <<"}">>) THEN t1 ELSE t1 \o <<"}">>

\* The repair was tried on the reply.
Repaired == Decoded /\ response_text.t = "str" /\ Ran("repair")

\* C26, the rules: the repaired text is the one the stated rules give.
C26_RulesInOrder ==
    Repaired =>
        LET cleaned == _clean_response_text(response_text.s)
        IN /\ _is_truncated_json(cleaned)
           /\ _fix_truncated_json(cleaned) = RepairAsStated(cleaned)

\* C26: the rules, and a reply cut after a colon and a space is completed
\* with 0.95.
C26_ColonSpaceCompleted ==
    /\ C26_RulesInOrder
    /\ Repaired /\ EndsWith(response_text.s, <<":", " ">>) =>
           EndsWith(_fix_truncated_json(_clean_response_text(response_text.s)),
                    TXT.default_conf \o <<"}">>)

(***************************************************************************)
(* C27.  The fallback always returns a result: its score is the one of the *)
(* first keyword group, in the precedence 5, 4, 3, 2, 1, that has a word   *)
(* in the text (3 when none has), its label the table entry of the score,  *)
(* its confidence 0.7, its explanation the fixed message, its language the *)
(* requested one, or en when auto was requested.                           *)
(***************************************************************************)
Precedence == <<5, 4, 3, 2, 1>>

\* The groups with a word in the lower-cased text, as places of Precedence.
Matching(text) ==
    {k \in DOMAIN Precedence : \E w \in Words[Precedence[k]] : Contains(Lower(text), w)}

FirstMatching(text) ==
    IF Matching(text) = {} THEN 3
    ELSE Precedence[CHOOSE k \in Matching(text) : \A m \in Matching(text) : k <= m]

C27_FallbackResult ==
    (Decoded /\ Ran("fallback")) =>
        /\ parsed.kind = "return"
        /\ parsed.r.sentiment_score = FirstMatching(_clean_response_text(response_text.s))
        /\ parsed.r.sentiment_label = PyStr(score_to_label(parsed.r.sentiment_score))
        /\ parsed.r.confidence = PyFloat(7, 1)
        /\ parsed.r.explanation = PyStr(TXT.inferred)
        /\ parsed.r.language_detected =
               PyStr(IF request.language = LANG.auto THEN LANG.en ELSE request.language)
        /\ parsed.r.processing_time = 0

\* A fallback under auto whose text has words of the groups 2 and 1 only.
C27_Witness ==
    /\ Decoded /\ Ran("fallback")
    /\ request.language = LANG.auto
    /\ Matching(_clean_response_text(response_text.s)) = {4, 5}
    /\ parsed.r.sentiment_score = 2
    /\ parsed.r.language_detected = PyStr(LANG.en)

(***************************************************************************)
(* C28.  Building the prompt changes nothing but the prompt, and the       *)
(* prompt is a function of the request: the block of ja, ko, zh or en for  *)
(* the request of that language, the block of en for auto and any other    *)
(* language; the context of the request, or the default phrase when the    *)
(* request has none.                                                       *)
(***************************************************************************)
\* The request has no context: None, or the empty text the form leaves out.
Absent(c) == c = PyNone \/ c = PyStr(<<>>)

C28_Step ==
    prompt' # prompt =>
        /\ prompt = None
        /\ prompt'.text = request.text
        /\ prompt'.language = request.language
        /\ prompt'.cultural_context =
               (CASE request.language = LANG.ja -> LANG.ja
                  [] request.language = LANG.ko -> LANG.ko
                  [] request.language = LANG.zh -> LANG.zh
                  [] OTHER -> LANG.en)
        /\ prompt'.context = (IF Absent(request.context) THEN PyStr(TXT.general) ELSE request.context)
        /\ UNCHANGED <<config, request, attempt, response, events, only_transport, response_text,
                       parsed, outcome, app_vars, pair_vars>>

C28_PromptOfRequest == [][C28_Step]_vars

\* What C28_PromptOfRequest says of a built prompt, of the state alone.
PromptBuilt(lang, block) ==
    /\ prompt # None
    /\ request.language = lang
    /\ prompt.cultural_context = block

\* The prompt of a request in Chinese with a context of its own.
C28_Witness ==
    /\ PromptBuilt(LANG.zh, LANG.zh)
    /\ prompt.context = request.context
    /\ ~Absent(request.context)

(***************************************************************************)
(* C29.  Every POST of a call carries the same body: the prompt of the     *)
(* call and the generation parameters temperature 0.1, topP 0.9, topK 20,  *)
(* maxOutputTokens 1024, candidateCount 1 and no stop sequence, whatever   *)
(* the request and the configuration.                                      *)
(***************************************************************************)
PostPlaces == {k \in DOMAIN events : events[k].e = "post"}

C29_SameBodyEveryAttempt ==
    \A k \in PostPlaces :
        /\ events[k].json.contents = <<[parts |-> <<[text |-> prompt]>>]>>
        /\ events[k].json.generationConfig =
               [temperature |-> PyFloat(1, 1), topP |-> PyFloat(9, 1), topK |-> 20,
                maxOutputTokens |-> 1024, candidateCount |-> 1, stopSequences |-> <<>>]
        /\ \A m \in PostPlaces : events[m].json = events[k].json

\* A call with a context of its own that has posted twice.
C29_Witness ==
    /\ Cardinality(PostPlaces) = 2
    /\ ~Absent(request.context)
    /\ config.max_retries = 2

(***************************************************************************)
(* C30.  An analysis builds its prompt, then sends, then decodes: the      *)
(* decode runs at most once and only on a text the send returned; when the *)
(* send fails there is no decode; after a decode, failed or not, nothing   *)
(* is sent again.                                                          *)
(***************************************************************************)
C30_Step ==
    /\ prompt' # prompt => prompt = None /\ events = <<>> /\ response_text = None /\ parsed = None
    /\ events' # events => prompt # None /\ response_text = None /\ parsed = None
    /\ response_text' # response_text =>
           prompt # None /\ response_text = None /\ parsed = None /\ PostPlaces # {}
    /\ parsed' # parsed =>
           /\ parsed = None
           /\ response_text # None
           /\ response_text' = response_text
           /\ events' = events
    /\ (outcome' # None /\ response_text' = None) => parsed' = None
    /\ (parsed # None /\ parsed.kind = "raise") =>
           UNCHANGED <<prompt, events, response_text, parsed, attempt>>

C30_PromptSendDecode == [][C30_Step]_vars

\* A decode that raised after the first POST of a call that had another
\* attempt left.
C30_Witness ==
    /\ parsed # None /\ parsed.kind = "raise"
    /\ outcome = Raised(parsed.e)
    /\ Cardinality(PostPlaces) = 1
    /\ attempt + 1 < config.max_retries

(***************************************************************************)
(* C31.  In every run of _make_api_request the number of POSTs is at most  *)
(* max_retries, and every POST is made with the timeout of the             *)
(* configuration.                                                          *)
(***************************************************************************)
\* Every POST recorded has the configured timeout.
ConfiguredTimeouts == \A k \in PostPlaces : events[k].timeout = config.timeout

\* C31 as stated.
C31_AtMostMaxRetries ==
    /\ Posts(events) <= config.max_retries
    /\ ConfiguredTimeouts

\* C31 amended: the bound is max_retries when it is positive and 0 otherwise.
C31_AtMostMaxRetriesOrNone ==
    /\ Posts(events) <= (IF config.max_retries > 0 THEN config.max_retries ELSE 0)
    /\ ConfiguredTimeouts

\* A finished call that used its whole budget, under a timeout of its own.
C31_Witness ==
    /\ outcome # None
    /\ config.max_retries >= 2
    /\ Posts(events) = config.max_retries
    /\ config.timeout # DefaultTimeout

(***************************************************************************)
(* C32.  Every analysis call ends: when every POST returns or fails and    *)
(* every sleep ends, the call returns a result or raises an error, for     *)
(* every max_retries and every sequence of upstream outcomes.              *)
(***************************************************************************)
Finished == pc = "done" /\ outcome # None /\ outcome.kind \in {"return", "raise"}

C32_CallTerminates == <>Finished

\* A call that returned a result after a second POST.
C32_Witness ==
    /\ Finished /\ outcome.kind = "return"
    /\ Posts(events) = 2
    /\ Sleeps(events) # <<>>

(***************************************************************************)
(* C33.  With max_retries <= 0 _make_api_request makes no POST and no      *)
(* sleep and raises "Max retries exceeded"; with max_retries >= 1 that     *)
(* error cannot be raised, because the last attempt returns the text or    *)
(* raises an error wrapped with the number of attempts.                    *)
(***************************************************************************)
\* C33, the error of line 238: raised with nothing done when there is no
\* budget, never raised when there is one.
C33_ExceededOnlyWithoutBudget ==
    /\ config.max_retries <= 0 =>
           /\ events = <<>> /\ response_text = None
           /\ outcome # None => outcome = Raised(MaxRetriesExceeded)
    /\ config.max_retries >= 1 => outcome # Raised(MaxRetriesExceeded)

\* The call raised "API request failed after N attempts" with N = max_retries.
RaisedWrapped ==
    /\ outcome # None /\ outcome.kind = "raise"
    /\ "attempts" \in DOMAIN outcome.e
    /\ outcome.e.attempts = config.max_retries

\* C33: the above, and a call that ended in its last attempt returned the
\* text or raised the wrapped error.
C33_LastAttemptReturnsOrWraps ==
    /\ C33_ExceededOnlyWithoutBudget
    /\ (config.max_retries >= 1 /\ attempt = config.max_retries - 1 /\ outcome # None) =>
           RaisedWrapped

(***************************************************************************)
(* C34.  The time slept in one call of _make_api_request is the sum of the *)
(* backoff min(2^k, 60) of every attempt k >= 1 that was started and of    *)
(* the Retry-After of every 429 received with attempts left; the attempt   *)
(* after a 429 comes after the Retry-After sleep and the backoff sleep.    *)
(***************************************************************************)
\* The step starts the attempt of index k >= 1.
Starts(k) == pc = "loop" /\ pc' = "post" /\ attempt = k /\ k >= 1

\* What a step adds to the time slept.
SleptInStep ==
    (IF Starts(attempt) THEN (IF 2 ^ attempt < 60 THEN 2 ^ attempt ELSE 60) ELSE 0)
    + (IF RateLimited /\ attempt < config.max_retries - 1
       THEN RetryAfterSeconds(response.headers) ELSE 0)

\* After a Retry-After sleep comes the backoff sleep, and then the POST.
WaitThenBackoffThenPost(evs) ==
    \A k \in DOMAIN evs :
        (evs[k].e = "sleep" /\ evs[k].why = "retry_after") =>
            /\ k + 1 <= Len(evs) => evs[k + 1].e = "sleep" /\ evs[k + 1].why = "backoff"
            /\ k + 2 <= Len(evs) => evs[k + 2].e = "post"

C34_Step ==
    /\ Slept(events') = Slept(events) + SleptInStep
    /\ WaitThenBackoffThenPost(events')

C34_SleepAccounting == [][C34_Step]_vars

\* Two 429s with attempts left, of 5 and of 60 seconds, each followed by the
\* backoff of the next attempt and its POST.
C34_Witness ==
    /\ Sleeps(events) = <<5, 2, 60, 4>>
    /\ Last(events).e = "post"
    /\ Slept(events) = 71

(***************************************************************************)
(* C35.  The fallback gives the score 1 only to a text with "terrible",    *)
(* "awful" or "hate" and with no keyword of the groups of 5, 4, 3 and 2; a *)
(* text with "very negative" never gets the score 1, "negative" being      *)
(* tested before.                                                          *)
(***************************************************************************)
\* The lower-cased text the fallback looks at.
FallbackText == Lower(_clean_response_text(response_text.s))

\* The fallback returned the score n.
FallbackScored(n) ==
    Decoded /\ Ran("fallback") /\ parsed.kind = "return" /\ parsed.r.sentiment_score = n

C35_ScoreOneOnlyForWorstWords ==
    /\ FallbackScored(1) =>
           /\ \E w \in {W.terrible, W.awful, W.hate} : Contains(FallbackText, w)
           /\ \A n \in 2..5 : \A w \in Words[n] : ~Contains(FallbackText, w)
    /\ (Decoded /\ Ran("fallback") /\ Contains(FallbackText, W.very_negative)) =>
           /\ ~FallbackScored(1)
           /\ Contains(FallbackText, W.negative)
           /\ FallbackScored(2) \/ Matching(FallbackText) \cap {1, 2, 3} # {}

\* A reply in capitals with "terrible" and "hate" that got the score 1.
C35_Witness ==
    /\ FallbackScored(1)
    /\ Contains(FallbackText, W.terrible) /\ Contains(FallbackText, W.hate)
    /\ ~Contains(response_text.s, W.terrible)

(***************************************************************************)
(* C36.  In every result the decode returns, the label is the entry of the *)
(* table for the score (1 Very Negative, 2 Negative, 3 Neutral,            *)
(* 4 Positive, 5 Very Positive), also when the reply has a label of its    *)
(* own.                                                                    *)
(***************************************************************************)
LabelTable ==
    <<L.VeryNegative, L.Negative, L.Neutral, L.Positive, L.VeryPositive>>

C36_LabelAgreesWithScore ==
    (Decoded /\ parsed.kind = "return") =>
        /\ parsed.r.sentiment_score \in DOMAIN LabelTable
        /\ parsed.r.sentiment_label = PyStr(LabelTable[parsed.r.sentiment_score])

\* C36 for the replies without a label of their own, and for the fallback.
C36_LabelOfTableWhenNotSupplied ==
    (Decoded /\ parsed.kind = "return"
       /\ ~Contains(response_text.s, Quoted(K.sentiment_label))) =>
        parsed.r.sentiment_label = PyStr(LabelTable[parsed.r.sentiment_score])

(***************************************************************************)
(* C37.  In the loop of batch_analyze, after each item successful + failed *)
(* is the number of items handled and the number of entries of results; at *)
(* the end successful + failed = total = the number of items, results has  *)
(* one entry for each item, in the order of the items; a batch of 0 items  *)
(* or of more than 50 is refused before any analysis call.                 *)
(***************************************************************************)
\* The request is a batch whose texts are a list.
BatchOfList ==
    /\ http_request # None
    /\ http_request.endpoint = "batch"
    /\ http_request.is_json
    /\ http_request.data.t = "dict"
    /\ DictHas(http_request.data.items, APPK.texts)
    /\ DictLookup(http_request.data.items, APPK.texts).t = "list"

\* The id the entry of the item at place k is to carry.
EntryId(item, k) ==
    IF item.t = "dict" /\ DictHas(item.items, APPK.id)
    THEN DictLookup(item.items, APPK.id)
    ELSE PyStr(NatText(k - 1))

C37_BatchCounters ==
    BatchOfList =>
        LET texts == DictLookup(http_request.data.items, APPK.texts).elems
        IN IF Len(texts) = 0 \/ Len(texts) > 50
           THEN /\ app_pc # "loop"
                /\ client_calls = <<>> /\ results = <<>> /\ successful = 0 /\ failed = 0
                /\ app_pc = "sent" => http_response.status = 400
           ELSE /\ batch_i \in 0..Len(texts)
                /\ successful + failed = batch_i
                /\ Len(results) = batch_i
                /\ successful = Cardinality({k \in DOMAIN results : ~IsErrorEntry(results[k])})
                /\ \A k \in DOMAIN results : results[k].id = EntryId(texts[k], k)
                /\ app_pc = "sent" =>
                      /\ http_response.status = 200
                      /\ http_response.body.summary.total = Len(texts)
                      /\ http_response.body.summary.successful
                           + http_response.body.summary.failed = Len(texts)
                      /\ http_response.body.summary.successful = successful
                      /\ http_response.body.results = results
                      /\ Len(results) = Len(texts)

\* A batch of two answered: the first item analysed, the second failed.
C37_Witness ==
    /\ BatchOfList /\ app_pc = "sent" /\ http_response.status = 200
    /\ http_response.body.summary = [total |-> 2, successful |-> 1, failed |-> 1]
    /\ ~IsErrorEntry(http_response.body.results[1])
    /\ IsErrorEntry(http_response.body.results[2])

(***************************************************************************)
(* C38.  validate reports valid exactly when it has no error; a            *)
(* max_retries below 1 or above 10 and a timeout below 1 or above 300 add  *)
(* a warning and never an error; a configuration with max_retries = 0      *)
(* passes and is the one the client is made with.                          *)
(***************************************************************************)
Validated == launch # None /\ launch.validation # None

Among(seq, x) == \E k \in DOMAIN seq : seq[k] = x

====
